---- MODULE Spec2Model ----
(***************************************************************************)
(* A model of go-nodered-wrapper: the transport client                     *)
(* (internal/client/client.go) and the orchestration facade (pkg/wrapper). *)
(*                                                                         *)
(* One caller drives one wrapper.  A facade call is a sequence of steps,   *)
(* cut where the code hands control to something outside itself: an        *)
(* executor hook, the clock, or an HTTP exchange.  Everything the outside  *)
(* decides (the hook's return value, the server's answer, the time) is     *)
(* drawn with \E from a small set.                                         *)
(*                                                                         *)
(* A hook is modelled by the error it returns; what a caller's hook does   *)
(* to the input map or the result it is handed is the caller's code.       *)
(* Not modelled: debug printing (client.go:63-65, 85-87, 105-107,          *)
(* 180-182; it writes to stdout only), the Content-Type header, and the    *)
(* http.Client timeout, which shows only as one of the network errors.     *)
(***************************************************************************)
EXTENDS Integers, Sequences, FiniteSets, TLC

VARIABLES
    wrapper,    \* the *NodeRedWrapper the caller holds, or NoWrapper
    pc,         \* where the caller's current call stands
    call,       \* the current call: its operation and arguments
    local,      \* the current call's local variables
    events,     \* hooks and transport calls of the current call, in order
    requests,   \* HTTP requests the current call has sent, in order
    responses,  \* what the server answered to each of them, in order
    ret,        \* what the last call returned
    granted     \* history: the token the last successful GetAuthToken on
                \* the wrapper's client returned, "" when there was none

vars == <<wrapper, pc, call, local, events, requests, responses, ret, granted>>

(***************************************************************************)
(* Bounds                                                                  *)
(***************************************************************************)
\* time.Now() at the start of a transport call is 0..MaxStart
MaxStart == 1
\* a transport call takes 0..MaxDelay ticks
MaxDelay == 2
\* the longest node list of a flow handed to the translator alone
MaxNodes == 2

(***************************************************************************)
(* Values                                                                  *)
(***************************************************************************)
\* JSON-like values carry their type in the field name, so that values of
\* different types are unequal rather than incomparable.
Str(s) == [str |-> s]
Num(n) == [num |-> n]
Lst(l) == [list |-> l]
\* a Go value json.Marshal rejects (a channel, a func, NaN)
Unmarshalable == [unmarshalable |-> TRUE]

\* Go's nil error and fmt.Errorf: the format string, its arguments, and the
\* error wrapped by %w (NoErr when the format has no %w).
NoErr == [nil |-> TRUE]
Errorf(format, args, wrapped) == [fmt |-> format, args |-> args, unwrap |-> wrapped]

IsErr(e) == e # NoErr

\* errors.Is(e, target): e or an error on its %w chain is target.
RECURSIVE ErrorsIs(_, _)
ErrorsIs(e, target) ==
    IF e = NoErr THEN FALSE
    ELSE IF e = target THEN TRUE
    ELSE IF "unwrap" \in DOMAIN e THEN ErrorsIs(e.unwrap, target)
    ELSE FALSE

\* err.Error(): the message mentions these pieces of text (the format, the
\* rendered arguments, and the text of every error printed with %w or %v).
RECURSIVE ErrorText(_)
ErrorText(e) ==
    IF e = NoErr THEN {}
    ELSE IF "fmt" \in DOMAIN e
    THEN {Str(e.fmt)}
         \cup {e.args[i] : i \in {j \in 1..Len(e.args) : "err" \notin DOMAIN e.args[j]}}
         \cup UNION {ErrorText(e.args[i].err) :
                        i \in {j \in 1..Len(e.args) : "err" \in DOMAIN e.args[j]}}
    ELSE {Str(e.text)}

\* an error value passed as a format argument (%w or %v)
ErrArg(e) == [err |-> e]

\* errors that come from outside this code
NetError(text) == [text |-> text]
HookError(text) == [text |-> text]

Bool(b) == [bool |-> b]
Obj(m) == [obj |-> m]
\* a response body rendered with %s
BodyText(b) == [body |-> b]

\* Go's nil pointers
NilResult == [nil |-> TRUE]
NilFlow == [nil |-> TRUE]
NilConfig == [nil |-> TRUE]
NoWrapper == [nil |-> TRUE]
NoClient == [nil |-> TRUE]
\* a request without an Authorization header
NoHeader == <<>>

(***************************************************************************)
(* Inputs the caller and the server may supply                             *)
(***************************************************************************)
\* types.Config values a caller may pass (Timeout is left out: see above).
\* A config with a token is one that asks for RetryAttempts retries, a config
\* without a token asks for none.
RetryAttempts == 3
Configs ==
    {NilConfig} \cup
    {[nil |-> FALSE, NodeRedURL |-> url, APIKey |-> key,
      RetryAttempts |-> IF key = "" THEN 0 ELSE RetryAttempts, Debug |-> TRUE] :
        url \in {"", "http://nr:1880"}, key \in {"", "key0"}}

Executors == {"DefaultExecutor", "CustomExecutor"}
Converters == {"DefaultConverter", "CustomConverter"}
NilHandler == "nil"

\* an identifier url.Parse rejects (it holds a control character), so
\* http.NewRequestWithContext fails and nothing is sent
CtlID == "f\n"
FlowIDs == {"", "f1", CtlID}

NodeInject ==
    [ID |-> "n1", Type |-> "inject", Name |-> "Start", X |-> 100, Y |-> 100,
     Wires |-> << <<"n2">> >>,
     Properties |-> ("payload" :> Str("hi")) @@ ("payloadType" :> Str("str"))]
NodeDebug ==
    [ID |-> "n2", Type |-> "debug", Name |-> "Log", X |-> 300, Y |-> 100,
     Wires |-> << >>,
     Properties |-> ("complete" :> Str("payload"))]
\* a node with a property value json.Marshal rejects
NodeChan ==
    [ID |-> "n3", Type |-> "function", Name |-> "Fn", X |-> 0, Y |-> 0,
     Wires |-> << >>,
     Properties |-> ("func" :> Unmarshalable)]

Flow(id, name, desc, nodes, conns) ==
    [nil |-> FALSE, ID |-> id, Name |-> name, Description |-> desc,
     Version |-> "1.0.0", Nodes |-> nodes, Connections |-> conns]

\* *types.FlowDefinition values a caller may pass
Flows ==
    {NilFlow,
     Flow("", "No id", "", << >>, << >>),
     Flow("f1", "Empty", "", << >>, << >>),
     Flow("f1", "Two nodes", "described", <<NodeInject, NodeDebug>>,
          <<[Source |-> "n1", Target |-> "n2"]>>),
     Flow("f2", "Chan", "", <<NodeChan>>, << >>),
     Flow(CtlID, "Ctl", "", << >>, << >>)}

\* input maps a caller may pass to ExecuteFlow (nil marshals to null)
NilInput == [null |-> TRUE]
Inputs ==
    {NilInput, Obj("message" :> Str("hello")), Obj("done" :> Unmarshalable)}

\* what a hook of a caller-supplied executor may return
HookErrors == {HookError("hook failed")}

StatusOK == 200
StatusNotFound == 404
Statuses == {StatusOK, StatusNotFound, 401, 500}

\* response bodies: JSON documents, and one that is not JSON
BodyResult ==
    [json |-> Obj(("execution_id" :> Str("e1")) @@ ("success" :> Bool(TRUE))
                   @@ ("duration" :> Num(99)))]
BodyFlow ==
    [json |-> Obj(("id" :> Str("f1")) @@ ("name" :> Str("Stored")))]
BodyErrorDoc == [json |-> Obj("error" :> Str("rejected"))]
BodyMistyped ==
    [json |-> Obj(("id" :> Num(7)) @@ ("success" :> Str("yes"))
                   @@ ("access_token" :> Num(7)))]
BodyNotJSON == [raw |-> "<html>"]
\* the token endpoint's answer for access token t
BodyToken(t) ==
    [json |-> Obj(("access_token" :> Str(t)) @@ ("token_type" :> Str("Bearer"))
                   @@ ("expires_in" :> Num(3600)))]
\* access tokens the token endpoint may grant
Tokens == {"tok1", "tok2"}
Bodies ==
    {BodyResult, BodyFlow, BodyErrorDoc, BodyMistyped, BodyNotJSON} \cup
    {BodyToken(t) : t \in Tokens}

\* username and password a caller may pass to GetAuthToken
Credentials ==
    {[username |-> "admin", password |-> "password"],
     [username |-> "", password |-> ""]}

\* httpClient.Do fails: no connection, or the caller's context ended
NetErrors == {NetError("connection refused"), NetError("context canceled")}

\* what httpClient.Do may return: an error, or a response
Responses ==
    {[err |-> e, status |-> 0, body |-> BodyNotJSON] : e \in NetErrors} \cup
    {[err |-> NoErr, status |-> s, body |-> b] : s \in Statuses, b \in Bodies}

(***************************************************************************)
(* encoding/json and net/http, as far as this code relies on them          *)
(***************************************************************************)
RECURSIVE HasUnmarshalable(_)
HasUnmarshalable(v) ==
    IF "unmarshalable" \in DOMAIN v THEN TRUE
    ELSE IF "obj" \in DOMAIN v
    THEN \E k \in DOMAIN v.obj : HasUnmarshalable(v.obj[k])
    ELSE IF "list" \in DOMAIN v
    THEN \E i \in 1..Len(v.list) : HasUnmarshalable(v.list[i])
    ELSE FALSE

MarshalError == [text |-> "json: unsupported type"]
\* json.Marshal(v): the bytes encoding v, or an error
Marshal(v) ==
    IF HasUnmarshalable(v)
    THEN [data |-> << >>, err |-> MarshalError]
    ELSE [data |-> <<"json", v>>, err |-> NoErr]

DecodeError == [text |-> "json: cannot decode"]
\* does JSON document doc hold key k with a value of another type than t
Mistyped(doc, k, t) == k \in DOMAIN doc.obj /\ t \notin DOMAIN doc.obj[k]
\* the value of key k in doc, or the zero value when the key is absent
Field(doc, k, t, zero) == IF k \in DOMAIN doc.obj THEN doc.obj[k][t] ELSE zero

\* json.NewDecoder(body).Decode(&result) for a types.ExecutionResult
DecodeExecutionResult(body) ==
    IF "json" \notin DOMAIN body
       \/ Mistyped(body.json, "execution_id", "str")
       \/ Mistyped(body.json, "success", "bool")
       \/ Mistyped(body.json, "error", "str")
       \/ Mistyped(body.json, "duration", "num")
    THEN [result |-> NilResult, err |-> DecodeError]
    ELSE [result |-> [nil |-> FALSE,
                      ExecutionID |-> Field(body.json, "execution_id", "str", ""),
                      Success |-> Field(body.json, "success", "bool", FALSE),
                      Error |-> Field(body.json, "error", "str", ""),
                      Duration |-> Field(body.json, "duration", "num", 0)],
          err |-> NoErr]

\* json.NewDecoder(body).Decode(&flow) for a types.FlowDefinition
DecodeFlowDefinition(body) ==
    IF "json" \notin DOMAIN body
       \/ Mistyped(body.json, "id", "str")
       \/ Mistyped(body.json, "name", "str")
       \/ Mistyped(body.json, "description", "str")
       \/ Mistyped(body.json, "version", "str")
    THEN [flow |-> NilFlow, err |-> DecodeError]
    ELSE [flow |-> [Flow(Field(body.json, "id", "str", ""),
                         Field(body.json, "name", "str", ""),
                         Field(body.json, "description", "str", ""),
                         << >>, << >>)
                    EXCEPT !.Version = Field(body.json, "version", "str", "")],
          err |-> NoErr]

\* json.NewDecoder(body).Decode(&authResponse)
DecodeAuthResponse(body) ==
    IF "json" \notin DOMAIN body
       \/ Mistyped(body.json, "access_token", "str")
       \/ Mistyped(body.json, "token_type", "str")
       \/ Mistyped(body.json, "expires_in", "num")
    THEN [AccessToken |-> "", err |-> DecodeError]
    ELSE [AccessToken |-> Field(body.json, "access_token", "str", ""),
          err |-> NoErr]

URLError == [text |-> "net/url: invalid control character in URL"]
\* http.NewRequestWithContext: the request, or an error when the URL does
\* not parse.  The Authorization header is set by the caller's next lines.
NewRequest(method, url, body) ==
    IF \E i \in 1..Len(url) : url[i] = CtlID
    THEN [req |-> << >>, err |-> URLError]
    ELSE [req |-> [method |-> method, url |-> url, body |-> body,
                   Authorization |-> NoHeader],
          err |-> NoErr]

\* if c.apiKey != "" { req.Header.Set("Authorization", "Bearer "+c.apiKey) }
SetAuthorization(req, apiKey) ==
    IF apiKey # ""
    THEN [req EXCEPT !.Authorization = <<"Bearer ", apiKey>>]
    ELSE req

(***************************************************************************)
(* internal/client: construction and the flow translator                   *)
(***************************************************************************)
\* NewNodeRedClient reads config.NodeRedURL without a nil check: an unset
\* config is a nil-pointer dereference, which panics.
NewNodeRedClient(config) ==
    IF config.nil
    THEN [panic |-> TRUE, client |-> NoClient, err |-> NoErr]
    ELSE IF config.NodeRedURL = ""
    THEN [panic |-> FALSE, client |-> NoClient,
          err |-> Errorf("node_red_url is required", << >>, NoErr)]
    ELSE [panic |-> FALSE,
          client |-> [nil |-> FALSE, baseURL |-> config.NodeRedURL,
                      apiKey |-> config.APIKey, debug |-> config.Debug],
          err |-> NoErr]

WiresValue(wires) ==
    Lst([p \in 1..Len(wires) |->
            Lst([j \in 1..Len(wires[p]) |-> Str(wires[p][j])])])

\* Variant of TabNode that carries the flow's version too.
TabNode_WithVersion(flow) ==
    LET base == ("id" :> Str(flow.ID)) @@ ("type" :> Str("tab"))
                @@ ("label" :> Str(flow.Name)) @@ ("version" :> Str(flow.Version))
    IN  IF flow.Description # ""
        THEN ("info" :> Str(flow.Description)) @@ base
        ELSE base

\* the tab (flow container) object
TabNode(flow) ==
    LET base == ("id" :> Str(flow.ID)) @@ ("type" :> Str("tab"))
                @@ ("label" :> Str(flow.Name))
    IN  IF flow.Description # ""
        THEN ("info" :> Str(flow.Description)) @@ base
        ELSE base

\* Variant of NodeRedNode in which the node's own fields are written over
\* the properties.
NodeRedNode_FieldsWin(flow, node) ==
    LET base == [id |-> Str(node.ID), type |-> Str(node.Type),
                 name |-> Str(node.Name), x |-> Num(node.X), y |-> Num(node.Y),
                 z |-> Str(flow.ID), wires |-> WiresValue(node.Wires)]
    IN  base @@ node.Properties

\* Variant of NodeRedNode that keeps the node's identifier.
NodeRedNode_KeepsID(flow, node) ==
    LET base == [id |-> Str(node.ID), type |-> Str(node.Type),
                 name |-> Str(node.Name), x |-> Num(node.X), y |-> Num(node.Y),
                 z |-> Str(flow.ID), wires |-> WiresValue(node.Wires)]
    IN  ("id" :> Str(node.ID)) @@ node.Properties @@ base

\* one node's object: its own fields, then every property written over them
NodeRedNode(flow, node) ==
    LET base == [id |-> Str(node.ID), type |-> Str(node.Type),
                 name |-> Str(node.Name), x |-> Num(node.X), y |-> Num(node.Y),
                 z |-> Str(flow.ID), wires |-> WiresValue(node.Wires)]
    IN  node.Properties @@ base

convertFlowToNodeRedFormat(flow) ==
    <<TabNode(flow)>> \o
    [i \in 1..Len(flow.Nodes) |-> NodeRedNode(flow, flow.Nodes[i])]

\* Variant of DeployPayload whose "nodes" keep the tab object in front.
DeployPayload_WithTab(flow) ==
    LET nodeRedNodes == convertFlowToNodeRedFormat(flow)
        base == ("id" :> Str(flow.ID)) @@ ("label" :> Str(flow.Name))
                @@ ("nodes" :> Lst([i \in 1..Len(nodeRedNodes) |->
                                        Obj(nodeRedNodes[i])]))
    IN  Obj(IF flow.Description # ""
            THEN ("info" :> Str(flow.Description)) @@ base
            ELSE base)

\* the map DeployFlow marshals: the flow's id and label, and the node
\* objects without the tab object
DeployPayload(flow) ==
    LET nodeRedNodes == convertFlowToNodeRedFormat(flow)
        base == ("id" :> Str(flow.ID)) @@ ("label" :> Str(flow.Name))
                @@ ("nodes" :> Lst([i \in 1..Len(nodeRedNodes) - 1 |->
                                        Obj(nodeRedNodes[i + 1])]))
    IN  Obj(IF flow.Description # ""
            THEN ("info" :> Str(flow.Description)) @@ base
            ELSE base)

(***************************************************************************)
(* internal/client: the transport operations.  Each is cut in two: what    *)
(* it does up to httpClient.Do, and what it makes of Do's answer.          *)
(***************************************************************************)
\* DeployFlow up to the PUT: the payload marshalled, the request built
DeployFlowRequest(c, flow) ==
    LET m == Marshal(DeployPayload(flow))
        r == NewRequest("PUT", <<c.baseURL, "/flow/", flow.ID>>, m.data)
    IN  IF IsErr(m.err)
        THEN [req |-> << >>, jsonData |-> << >>,
              err |-> Errorf("failed to marshal flow: %w", <<ErrArg(m.err)>>, m.err)]
        ELSE IF IsErr(r.err)
        THEN [req |-> << >>, jsonData |-> m.data,
              err |-> Errorf("failed to create request: %w", <<ErrArg(r.err)>>, r.err)]
        ELSE [req |-> SetAuthorization(r.req, c.apiKey), jsonData |-> m.data,
              err |-> NoErr]

\* Variant of DeployFlowOnResponse that falls back to createFlow on every
\* status other than 200.
DeployFlowOnResponse_AnyFailure(resp) ==
    IF IsErr(resp.err)
    THEN [next |-> "return",
          err |-> Errorf("failed to deploy flow: %w", <<ErrArg(resp.err)>>, resp.err)]
    ELSE IF resp.status # StatusOK
    THEN [next |-> "createFlow", err |-> NoErr]
    ELSE [next |-> "return", err |-> NoErr]

\* DeployFlow after the PUT: return, or go on to createFlow
DeployFlowOnResponse(resp) ==
    IF IsErr(resp.err)
    THEN [next |-> "return",
          err |-> Errorf("failed to deploy flow: %w", <<ErrArg(resp.err)>>, resp.err)]
    ELSE IF resp.status = StatusNotFound
    THEN [next |-> "createFlow", err |-> NoErr]
    ELSE IF resp.status # StatusOK
    THEN [next |-> "return",
          err |-> Errorf("failed to deploy flow: status %d, body: %s",
                         <<Num(resp.status), BodyText(resp.body)>>, NoErr)]
    ELSE [next |-> "return", err |-> NoErr]

\* createFlow up to the POST: the same bytes, sent to the collection
createFlowRequest(c, jsonData) ==
    LET r == NewRequest("POST", <<c.baseURL, "/flow">>, jsonData)
    IN  IF IsErr(r.err)
        THEN [req |-> << >>,
              err |-> Errorf("failed to create request: %w", <<ErrArg(r.err)>>, r.err)]
        ELSE [req |-> SetAuthorization(r.req, c.apiKey), err |-> NoErr]

\* Variant of createFlowOnResponse that reports the status without the body.
createFlowOnResponse_NoBody(resp) ==
    IF IsErr(resp.err)
    THEN Errorf("failed to create flow: %w", <<ErrArg(resp.err)>>, resp.err)
    ELSE IF resp.status # StatusOK
    THEN Errorf("failed to create flow: status %d", <<Num(resp.status)>>, NoErr)
    ELSE NoErr

\* createFlow after the POST
createFlowOnResponse(resp) ==
    IF IsErr(resp.err)
    THEN Errorf("failed to create flow: %w", <<ErrArg(resp.err)>>, resp.err)
    ELSE IF resp.status # StatusOK
    THEN Errorf("failed to create flow: status %d, body: %s",
                <<Num(resp.status), BodyText(resp.body)>>, NoErr)
    ELSE NoErr

\* client ExecuteFlow up to the POST
ClientExecuteFlowRequest(c, flowID, input) ==
    LET m == Marshal(input)
        r == NewRequest("POST", <<c.baseURL, "/flows/", flowID, "/execute">>, m.data)
    IN  IF IsErr(m.err)
        THEN [req |-> << >>,
              err |-> Errorf("failed to marshal input: %w", <<ErrArg(m.err)>>, m.err)]
        ELSE IF IsErr(r.err)
        THEN [req |-> << >>,
              err |-> Errorf("failed to create request: %w", <<ErrArg(r.err)>>, r.err)]
        ELSE [req |-> SetAuthorization(r.req, c.apiKey), err |-> NoErr]

\* Variant of ClientExecuteFlowOnResponse that answers a body it cannot
\* decode with an empty result.
ClientExecuteFlowOnResponse_SwallowsDecode(resp) ==
    LET d == DecodeExecutionResult(resp.body)
    IN  IF IsErr(resp.err)
        THEN [result |-> NilResult,
              err |-> Errorf("failed to execute flow: %w", <<ErrArg(resp.err)>>, resp.err)]
        ELSE IF IsErr(d.err)
        THEN [result |-> [nil |-> FALSE, ExecutionID |-> "", Success |-> FALSE,
                          Error |-> "", Duration |-> 0],
              err |-> NoErr]
        ELSE [result |-> d.result, err |-> NoErr]

\* client ExecuteFlow after the POST: the body is decoded whatever the status
ClientExecuteFlowOnResponse(resp) ==
    LET d == DecodeExecutionResult(resp.body)
    IN  IF IsErr(resp.err)
        THEN [result |-> NilResult,
              err |-> Errorf("failed to execute flow: %w", <<ErrArg(resp.err)>>, resp.err)]
        ELSE IF IsErr(d.err)
        THEN [result |-> NilResult,
              err |-> Errorf("failed to decode response: %w", <<ErrArg(d.err)>>, d.err)]
        ELSE [result |-> d.result, err |-> NoErr]

\* client GetFlow up to the GET
ClientGetFlowRequest(c, flowID) ==
    LET r == NewRequest("GET", <<c.baseURL, "/flows/", flowID>>, << >>)
    IN  IF IsErr(r.err)
        THEN [req |-> << >>,
              err |-> Errorf("failed to create request: %w", <<ErrArg(r.err)>>, r.err)]
        ELSE [req |-> SetAuthorization(r.req, c.apiKey), err |-> NoErr]

\* Variant of ClientGetFlowOnResponse without the separate answer to 404.
ClientGetFlowOnResponse_No404(resp, flowID) ==
    LET d == DecodeFlowDefinition(resp.body)
    IN  IF IsErr(resp.err)
        THEN [flow |-> NilFlow,
              err |-> Errorf("failed to get flow: %w", <<ErrArg(resp.err)>>, resp.err)]
        ELSE IF resp.status # StatusOK
        THEN [flow |-> NilFlow,
              err |-> Errorf("failed to get flow: status %d", <<Num(resp.status)>>, NoErr)]
        ELSE IF IsErr(d.err)
        THEN [flow |-> NilFlow,
              err |-> Errorf("failed to decode flow: %w", <<ErrArg(d.err)>>, d.err)]
        ELSE [flow |-> d.flow, err |-> NoErr]

\* client GetFlow after the GET
ClientGetFlowOnResponse(resp, flowID) ==
    LET d == DecodeFlowDefinition(resp.body)
    IN  IF IsErr(resp.err)
        THEN [flow |-> NilFlow,
              err |-> Errorf("failed to get flow: %w", <<ErrArg(resp.err)>>, resp.err)]
        ELSE IF resp.status = StatusNotFound
        THEN [flow |-> NilFlow,
              err |-> Errorf("flow not found: %s", <<Str(flowID)>>, NoErr)]
        ELSE IF resp.status # StatusOK
        THEN [flow |-> NilFlow,
              err |-> Errorf("failed to get flow: status %d", <<Num(resp.status)>>, NoErr)]
        ELSE IF IsErr(d.err)
        THEN [flow |-> NilFlow,
              err |-> Errorf("failed to decode flow: %w", <<ErrArg(d.err)>>, d.err)]
        ELSE [flow |-> d.flow, err |-> NoErr]

\* client DeleteFlow up to the DELETE
ClientDeleteFlowRequest(c, flowID) ==
    LET r == NewRequest("DELETE", <<c.baseURL, "/flows/", flowID>>, << >>)
    IN  IF IsErr(r.err)
        THEN [req |-> << >>,
              err |-> Errorf("failed to create request: %w", <<ErrArg(r.err)>>, r.err)]
        ELSE [req |-> SetAuthorization(r.req, c.apiKey), err |-> NoErr]

\* client DeleteFlow after the DELETE
ClientDeleteFlowOnResponse(resp, flowID) ==
    IF IsErr(resp.err)
    THEN Errorf("failed to delete flow: %w", <<ErrArg(resp.err)>>, resp.err)
    ELSE IF resp.status = StatusNotFound
    THEN Errorf("flow not found: %s", <<Str(flowID)>>, NoErr)
    ELSE IF resp.status # StatusOK
    THEN Errorf("failed to delete flow: status %d", <<Num(resp.status)>>, NoErr)
    ELSE NoErr

\* client HealthCheck up to the GET: no Authorization header is set
ClientHealthCheckRequest(c) ==
    LET r == NewRequest("GET", <<c.baseURL, "/health">>, << >>)
    IN  IF IsErr(r.err)
        THEN [req |-> << >>,
              err |-> Errorf("failed to create request: %w", <<ErrArg(r.err)>>, r.err)]
        ELSE [req |-> r.req, err |-> NoErr]

\* client HealthCheck after the GET
ClientHealthCheckOnResponse(resp) ==
    IF IsErr(resp.err)
    THEN Errorf("failed to check health: %w", <<ErrArg(resp.err)>>, resp.err)
    ELSE IF resp.status # StatusOK
    THEN Errorf("Node-RED is not healthy: status %d", <<Num(resp.status)>>, NoErr)
    ELSE NoErr

\* the password-grant payload of GetAuthToken
AuthPayload(username, password) ==
    Obj(("client_id" :> Str("node-red-admin")) @@ ("grant_type" :> Str("password"))
        @@ ("scope" :> Str("*")) @@ ("username" :> Str(username))
        @@ ("password" :> Str(password)))

\* client GetAuthToken up to the POST: no Authorization header is set
GetAuthTokenRequest(c, username, password) ==
    LET m == Marshal(AuthPayload(username, password))
        r == NewRequest("POST", <<c.baseURL, "/auth/token">>, m.data)
    IN  IF IsErr(m.err)
        THEN [req |-> << >>,
              err |-> Errorf("failed to marshal auth payload: %w", <<ErrArg(m.err)>>, m.err)]
        ELSE IF IsErr(r.err)
        THEN [req |-> << >>,
              err |-> Errorf("failed to create auth request: %w", <<ErrArg(r.err)>>, r.err)]
        ELSE [req |-> r.req, err |-> NoErr]

\* client GetAuthToken after the POST: the token it returns, or an error
GetAuthTokenOnResponse(resp) ==
    LET d == DecodeAuthResponse(resp.body)
    IN  IF IsErr(resp.err)
        THEN [token |-> "",
              err |-> Errorf("failed to authenticate: %w", <<ErrArg(resp.err)>>, resp.err)]
        ELSE IF resp.status # StatusOK
        THEN [token |-> "",
              err |-> Errorf("authentication failed: status %d, body: %s",
                             <<Num(resp.status), BodyText(resp.body)>>, NoErr)]
        ELSE IF IsErr(d.err)
        THEN [token |-> "",
              err |-> Errorf("failed to decode auth response: %w", <<ErrArg(d.err)>>, d.err)]
        ELSE IF d.AccessToken = ""
        THEN [token |-> "",
              err |-> Errorf("no access token in auth response", << >>, NoErr)]
        ELSE [token |-> d.AccessToken, err |-> NoErr]

\* Variant of GetAuthTokenStore that assigns the token on the failure paths
\* too.
GetAuthTokenStore_Always(c, r) == [c EXCEPT !.apiKey = r.token]

\* Variant of GetAuthTokenStore that clears the client's token.
GetAuthTokenStore_Cleared(c, r) == [c EXCEPT !.apiKey = ""]

\* Variant of GetAuthTokenStore that returns the token without storing it.
GetAuthTokenStore_Dropped(c, r) == c

\* c.apiKey = authResponse.AccessToken, on the success path only
GetAuthTokenStore(c, r) ==
    IF IsErr(r.err) THEN c ELSE [c EXCEPT !.apiKey = r.token]

(***************************************************************************)
(* pkg/wrapper: construction, validation, and ExecuteFlow's decisions      *)
(***************************************************************************)
New(config) ==
    LET c == NewNodeRedClient(config)
    IN  IF config.nil
        THEN [wrapper |-> NoWrapper,
              err |-> Errorf("config is required", << >>, NoErr)]
        ELSE IF IsErr(c.err)
        THEN [wrapper |-> NoWrapper,
              err |-> Errorf("failed to create Node-RED client: %w",
                             <<ErrArg(c.err)>>, c.err)]
        ELSE [wrapper |-> [nil |-> FALSE, client |-> c.client,
                           converter |-> "DefaultConverter",
                           executor |-> "DefaultExecutor", config |-> config],
              err |-> NoErr]

NewWithConverter(config, converter) ==
    LET n == New(config)
    IN  IF IsErr(n.err) THEN n
        ELSE IF converter # NilHandler
        THEN [n EXCEPT !.wrapper.converter = converter]
        ELSE n

NewWithExecutor(config, executor) ==
    LET n == New(config)
    IN  IF IsErr(n.err) THEN n
        ELSE IF executor # NilHandler
        THEN [n EXCEPT !.wrapper.executor = executor]
        ELSE n

\* Variant of SetConverter without the nil check.
SetConverter_Unchecked(w, converter) == [w EXCEPT !.converter = converter]

SetConverter(w, converter) ==
    IF converter # NilHandler THEN [w EXCEPT !.converter = converter] ELSE w

SetExecutor(w, executor) ==
    IF executor # NilHandler THEN [w EXCEPT !.executor = executor] ELSE w

GetConfig(w) == w.config

\* Variant of DeployFlowValidate without the check of the identifier.
DeployFlowValidate_NoIDCheck(flow) ==
    IF flow.nil THEN Errorf("flow is required", << >>, NoErr) ELSE NoErr

\* the checks DeployFlow makes before it delegates
DeployFlowValidate(flow) ==
    IF flow.nil THEN Errorf("flow is required", << >>, NoErr)
    ELSE IF flow.ID = "" THEN Errorf("flow ID is required", << >>, NoErr)
    ELSE NoErr

\* Variant of DeleteFlowValidate that accepts every identifier.
DeleteFlowValidate_None(flowID) == NoErr

\* the check ExecuteFlow, GetFlow and DeleteFlow each make first
ExecuteFlowValidate(flowID) ==
    IF flowID = "" THEN Errorf("flow ID is required", << >>, NoErr) ELSE NoErr

GetFlowValidate(flowID) ==
    IF flowID = "" THEN Errorf("flow ID is required", << >>, NoErr) ELSE NoErr

DeleteFlowValidate(flowID) ==
    IF flowID = "" THEN Errorf("flow ID is required", << >>, NoErr) ELSE NoErr

\* Variant of HookReturns in which the default executor's hooks may fail.
HookReturns_DefaultFails(executor) == {NoErr} \cup HookErrors

\* what a hook of the given executor may return: DefaultExecutor's hooks
\* return nil; a caller's executor may return anything
HookReturns(executor) ==
    IF executor = "DefaultExecutor" THEN {NoErr} ELSE {NoErr} \cup HookErrors

\* Variant of ExecuteFlowAfterPreExecute that goes on to the transport
\* although PreExecute failed.
ExecuteFlowAfterPreExecute_Ignored(err) ==
    [next |-> "client.ExecuteFlow", err |-> NoErr]

\* ExecuteFlow after PreExecute returned err
ExecuteFlowAfterPreExecute(err) ==
    IF IsErr(err)
    THEN [next |-> "return",
          err |-> Errorf("pre-execution failed: %w", <<ErrArg(err)>>, err)]
    ELSE [next |-> "client.ExecuteFlow", err |-> NoErr]

\* ExecuteFlow after the transport returned err
ExecuteFlowAfterClient(err) ==
    IF IsErr(err) THEN "OnError" ELSE "SetDuration"

\* Variant of ExecuteFlowAfterOnError that returns the hook's error alone.
ExecuteFlowAfterOnError_HookOnly(execErr, err) ==
    IF IsErr(execErr) THEN execErr ELSE err

\* ExecuteFlow after OnError(err) returned execErr
ExecuteFlowAfterOnError(execErr, err) ==
    IF IsErr(execErr)
    THEN Errorf("execution failed and error handler failed: %w (original error: %v)",
                <<ErrArg(execErr), ErrArg(err)>>, execErr)
    ELSE err

\* Variant of ExecuteFlowSetDuration that leaves the decoded duration.
ExecuteFlowSetDuration_Kept(result, startTime, now) == result

\* result.Duration = time.Since(startTime)
ExecuteFlowSetDuration(result, startTime, now) ==
    [result EXCEPT !.Duration = now - startTime]

\* Variant of ExecuteFlowAfterPostExecute that still hands out the result
\* when PostExecute failed.
ExecuteFlowAfterPostExecute_KeepsResult(err, result) ==
    IF IsErr(err)
    THEN [result |-> result,
          err |-> Errorf("post-execution failed: %w", <<ErrArg(err)>>, err)]
    ELSE [result |-> result, err |-> NoErr]

\* ExecuteFlow after PostExecute(result) returned err
ExecuteFlowAfterPostExecute(err, result) ==
    IF IsErr(err)
    THEN [result |-> NilResult,
          err |-> Errorf("post-execution failed: %w", <<ErrArg(err)>>, err)]
    ELSE [result |-> result, err |-> NoErr]

(***************************************************************************)
(* pkg/wrapper: the default converter.  A workflow is an interface{}       *)
(* value: its dynamic type, as %T prints it, and the value of that type.   *)
(***************************************************************************)
Workflow(type, value) == [type |-> type, value |-> value]
PtrFlowDefinition == "*types.FlowDefinition"
MapStringInterface == "map[string]interface {}"

\* flowMap[k].(string): the string under key k, ok only when the key is
\* there and holds a string
StringAt(flowMap, k) ==
    IF k \in DOMAIN flowMap /\ "str" \in DOMAIN flowMap[k]
    THEN [s |-> flowMap[k].str, ok |-> TRUE]
    ELSE [s |-> "", ok |-> FALSE]

\* &types.FlowDefinition{}
ZeroFlow == [Flow("", "", "", << >>, << >>) EXCEPT !.Version = ""]

\* Variant of ConvertToNodeRedFlow that refuses a flow without an id.
ConvertToNodeRedFlow_Validating(workflow) ==
    IF workflow.type = PtrFlowDefinition
    THEN IF workflow.value.nil \/ workflow.value.ID = ""
         THEN [flow |-> NilFlow,
               err |-> Errorf("flow ID is required", << >>, NoErr)]
         ELSE [flow |-> workflow.value, err |-> NoErr]
    ELSE IF workflow.type = MapStringInterface
    THEN LET flowMap == workflow.value
         IN  [flow |-> [ZeroFlow EXCEPT
                           !.ID = StringAt(flowMap, "id").s,
                           !.Name = StringAt(flowMap, "name").s,
                           !.Description = StringAt(flowMap, "description").s,
                           !.Version = StringAt(flowMap, "version").s],
              err |-> NoErr]
    ELSE [flow |-> NilFlow,
          err |-> Errorf("unsupported workflow type: %T", <<Str(workflow.type)>>, NoErr)]

\* Variant of ConvertToNodeRedFlow that leaves the version out.
ConvertToNodeRedFlow_NoVersion(workflow) ==
    IF workflow.type = PtrFlowDefinition
    THEN [flow |-> workflow.value, err |-> NoErr]
    ELSE IF workflow.type = MapStringInterface
    THEN LET flowMap == workflow.value
         IN  [flow |-> [ZeroFlow EXCEPT
                           !.ID = StringAt(flowMap, "id").s,
                           !.Name = StringAt(flowMap, "name").s,
                           !.Description = StringAt(flowMap, "description").s],
              err |-> NoErr]
    ELSE [flow |-> NilFlow,
          err |-> Errorf("unsupported workflow type: %T", <<Str(workflow.type)>>, NoErr)]

\* Variant of ConvertToNodeRedFlow that answers every other type with an
\* empty flow.
ConvertToNodeRedFlow_Lenient(workflow) ==
    IF workflow.type = PtrFlowDefinition
    THEN [flow |-> workflow.value, err |-> NoErr]
    ELSE IF workflow.type = MapStringInterface
    THEN LET flowMap == workflow.value
         IN  [flow |-> [ZeroFlow EXCEPT
                           !.ID = StringAt(flowMap, "id").s,
                           !.Name = StringAt(flowMap, "name").s,
                           !.Description = StringAt(flowMap, "description").s,
                           !.Version = StringAt(flowMap, "version").s],
              err |-> NoErr]
    ELSE [flow |-> ZeroFlow, err |-> NoErr]

\* DefaultConverter.ConvertToNodeRedFlow
ConvertToNodeRedFlow(workflow) ==
    IF workflow.type = PtrFlowDefinition
    THEN [flow |-> workflow.value, err |-> NoErr]
    ELSE IF workflow.type = MapStringInterface
    THEN LET flowMap == workflow.value
         IN  [flow |-> [ZeroFlow EXCEPT
                           !.ID = StringAt(flowMap, "id").s,
                           !.Name = StringAt(flowMap, "name").s,
                           !.Description = StringAt(flowMap, "description").s,
                           !.Version = StringAt(flowMap, "version").s],
              err |-> NoErr]
    ELSE [flow |-> NilFlow,
          err |-> Errorf("unsupported workflow type: %T", <<Str(workflow.type)>>, NoErr)]

\* what a caller's converter may fail with
ConverterErrors == {[text |-> "conversion failed"]}
\* the flows a caller's converter may produce: none, one without an
\* identifier, one that can be deployed
ConverterFlows ==
    {NilFlow, Flow("", "No id", "", << >>, << >>),
     Flow("f1", "Empty", "", << >>, << >>)}

\* what w.converter.ConvertToNodeRedFlow(workflow) may return: the default
\* converter's answer, or anything a caller's converter chooses
ConverterReturns(converter, workflow) ==
    IF converter = "DefaultConverter"
    THEN {ConvertToNodeRedFlow(workflow)}
    ELSE {[flow |-> f, err |-> NoErr] : f \in ConverterFlows} \cup
         {[flow |-> NilFlow, err |-> e] : e \in ConverterErrors}

\* Variant of DeployWorkflowAfterConvert that goes on to DeployFlow's checks
\* although the converter failed.
DeployWorkflowAfterConvert_ErrorIgnored(r) ==
    IF IsErr(DeployFlowValidate(r.flow))
    THEN [next |-> "return", err |-> DeployFlowValidate(r.flow)]
    ELSE [next |-> "client.DeployFlow", err |-> NoErr]

\* DeployWorkflow after the converter returned r: the conversion error, or
\* what DeployFlow's checks say about the flow produced
DeployWorkflowAfterConvert(r) ==
    IF IsErr(r.err)
    THEN [next |-> "return",
          err |-> Errorf("failed to convert workflow: %w", <<ErrArg(r.err)>>, r.err)]
    ELSE IF IsErr(DeployFlowValidate(r.flow))
    THEN [next |-> "return", err |-> DeployFlowValidate(r.flow)]
    ELSE [next |-> "client.DeployFlow", err |-> NoErr]

\* ExecuteWorkflow after the converter returned r: flow.ID is read with no
\* nil check, so a converter that returns no flow and no error makes the
\* call panic
ExecuteWorkflowAfterConvert(r) ==
    IF IsErr(r.err)
    THEN [next |-> "return",
          err |-> Errorf("failed to convert workflow: %w", <<ErrArg(r.err)>>, r.err)]
    ELSE IF r.flow.nil
    THEN [next |-> "panic", err |-> NoErr]
    ELSE IF IsErr(ExecuteFlowValidate(r.flow.ID))
    THEN [next |-> "return", err |-> ExecuteFlowValidate(r.flow.ID)]
    ELSE [next |-> "PreExecute", err |-> NoErr]

(***************************************************************************)
(* State machine                                                           *)
(***************************************************************************)
NoCall ==
    [op |-> "none", config |-> NilConfig, flow |-> NilFlow, flowID |-> "",
     input |-> NilInput, username |-> "", password |-> "",
     handler |-> NilHandler]
NoLocal == [jsonData |-> << >>, result |-> NilResult, err |-> NoErr, startTime |-> 0]
NoReturn == [op |-> "none", value |-> NilResult, err |-> NoErr, panic |-> FALSE]

Init ==
    /\ wrapper = NoWrapper
    /\ pc = "idle"
    /\ call = NoCall
    /\ local = NoLocal
    /\ events = << >>
    /\ requests = << >>
    /\ responses = << >>
    /\ ret = NoReturn
    /\ granted = ""

\* the caller is between calls
Idle == pc \in {"idle", "done"}

\* a call starts: nothing of the previous call is left (each start also
\* clears ret, the previous call's return value)
Enter(c, next) ==
    /\ Idle
    /\ call' = c
    /\ local' = NoLocal
    /\ events' = << >>
    /\ requests' = << >>
    /\ responses' = << >>
    /\ pc' = next

\* the current call returns
Return(value, err) ==
    /\ pc' = "done"
    /\ ret' = [op |-> call.op, value |-> value, err |-> err, panic |-> FALSE]

\* a call that starts and returns in one step
Immediate(c, value, err) ==
    /\ Enter(c, "done")
    /\ ret' = [op |-> c.op, value |-> value, err |-> err, panic |-> FALSE]

\* one HTTP exchange: req is sent and resp is what httpClient.Do returns
Exchange(req, resp) ==
    /\ requests' = Append(requests, req)
    /\ responses' = Append(responses, resp)

NoExchange == UNCHANGED <<requests, responses>>

(*-------------------------- construction --------------------------------*)
CallNew ==
    \E config \in Configs :
        /\ Immediate([NoCall EXCEPT !.op = "New", !.config = config],
                     New(config).wrapper, New(config).err)
        /\ wrapper' = New(config).wrapper
        /\ granted' = ""

CallNewWithConverter ==
    \E config \in Configs, converter \in Converters \cup {NilHandler} :
        LET n == NewWithConverter(config, converter)
        IN  /\ Immediate([NoCall EXCEPT !.op = "NewWithConverter", !.config = config,
                                         !.handler = converter],
                         n.wrapper, n.err)
            /\ wrapper' = n.wrapper
            /\ granted' = ""

CallNewWithExecutor ==
    \E config \in Configs, executor \in Executors \cup {NilHandler} :
        LET n == NewWithExecutor(config, executor)
        IN  /\ Immediate([NoCall EXCEPT !.op = "NewWithExecutor", !.config = config,
                                         !.handler = executor],
                         n.wrapper, n.err)
            /\ wrapper' = n.wrapper
            /\ granted' = ""

\* the transport client constructed on its own; a panic ends the program
CallNewNodeRedClient ==
    \E config \in Configs :
        LET n == NewNodeRedClient(config)
        IN  /\ Enter([NoCall EXCEPT !.op = "NewNodeRedClient", !.config = config],
                     IF n.panic THEN "panic" ELSE "done")
            /\ ret' = [op |-> "NewNodeRedClient", value |-> n.client,
                       err |-> n.err, panic |-> n.panic]
            /\ UNCHANGED <<wrapper, granted>>

CallSetConverter ==
    \E converter \in Converters \cup {NilHandler} :
        /\ wrapper # NoWrapper
        /\ Immediate([NoCall EXCEPT !.op = "SetConverter", !.handler = converter],
                     NilResult, NoErr)
        /\ wrapper' = SetConverter(wrapper, converter)
        /\ UNCHANGED granted

CallSetExecutor ==
    \E executor \in Executors \cup {NilHandler} :
        /\ wrapper # NoWrapper
        /\ Immediate([NoCall EXCEPT !.op = "SetExecutor", !.handler = executor],
                     NilResult, NoErr)
        /\ wrapper' = SetExecutor(wrapper, executor)
        /\ UNCHANGED granted

CallGetConfig ==
    /\ wrapper # NoWrapper
    /\ Immediate([NoCall EXCEPT !.op = "GetConfig"], GetConfig(wrapper), NoErr)
    /\ UNCHANGED <<wrapper, granted>>

(*-------------------------- DeployFlow -----------------------------------*)
\* wrapper DeployFlow: validate, then hand over to the transport
DeployFlow ==
    \E flow \in Flows :
        LET err == DeployFlowValidate(flow)
        IN  /\ wrapper # NoWrapper
            /\ Enter([NoCall EXCEPT !.op = "DeployFlow", !.flow = flow],
                     IF IsErr(err) THEN "done" ELSE "client.DeployFlow")
            /\ ret' = IF IsErr(err)
                      THEN [op |-> "DeployFlow", value |-> NilResult, err |-> err,
                            panic |-> FALSE]
                      ELSE NoReturn
            /\ UNCHANGED <<wrapper, granted>>

\* client DeployFlow: marshal, PUT, and read the answer
ClientDeployFlow ==
    /\ pc = "client.DeployFlow"
    /\ LET p == DeployFlowRequest(wrapper.client, call.flow)
       IN  IF IsErr(p.err)
           THEN /\ Return(NilResult, p.err)
                /\ NoExchange
                /\ UNCHANGED local
           ELSE \E resp \in Responses :
                    LET d == DeployFlowOnResponse(resp)
                    IN  /\ Exchange(p.req, resp)
                        /\ local' = [local EXCEPT !.jsonData = p.jsonData]
                        /\ IF d.next = "createFlow"
                           THEN pc' = "client.createFlow" /\ UNCHANGED ret
                           ELSE Return(NilResult, d.err)
    /\ events' = Append(events, [ev |-> "client.DeployFlow"])
    /\ UNCHANGED <<wrapper, granted, call>>

\* client createFlow: POST the same bytes, and read the answer
ClientCreateFlow ==
    /\ pc = "client.createFlow"
    /\ LET p == createFlowRequest(wrapper.client, local.jsonData)
       IN  IF IsErr(p.err)
           THEN /\ Return(NilResult, p.err)
                /\ NoExchange
           ELSE \E resp \in Responses :
                    /\ Exchange(p.req, resp)
                    /\ Return(NilResult, createFlowOnResponse(resp))
    /\ events' = Append(events, [ev |-> "client.createFlow"])
    /\ UNCHANGED <<wrapper, granted, call, local>>

(*-------------------------- ExecuteFlow ----------------------------------*)
\* wrapper ExecuteFlow: validate the flow id
ExecuteFlow ==
    \E flowID \in FlowIDs, input \in Inputs :
        LET err == ExecuteFlowValidate(flowID)
        IN  /\ wrapper # NoWrapper
            /\ Enter([NoCall EXCEPT !.op = "ExecuteFlow", !.flowID = flowID,
                                    !.input = input],
                     IF IsErr(err) THEN "done" ELSE "PreExecute")
            /\ ret' = IF IsErr(err)
                      THEN [op |-> "ExecuteFlow", value |-> NilResult, err |-> err,
                            panic |-> FALSE]
                      ELSE NoReturn
            /\ UNCHANGED <<wrapper, granted>>

\* w.executor.PreExecute(ctx, input)
PreExecute ==
    /\ pc = "PreExecute"
    /\ \E err \in HookReturns(wrapper.executor) :
        LET d == ExecuteFlowAfterPreExecute(err)
        IN  /\ events' = Append(events, [ev |-> "PreExecute", input |-> call.input,
                                         returned |-> err])
            /\ IF d.next = "return"
               THEN Return(NilResult, d.err)
               ELSE pc' = d.next /\ UNCHANGED ret
    /\ UNCHANGED <<wrapper, granted, call, local, requests, responses>>

\* startTime := time.Now(); result, err := w.client.ExecuteFlow(...)
ClientExecuteFlow ==
    /\ pc = "client.ExecuteFlow"
    /\ \E startTime \in 0..MaxStart :
        LET p == ClientExecuteFlowRequest(wrapper.client, call.flowID, call.input)
        IN  IF IsErr(p.err)
            THEN /\ local' = [local EXCEPT !.startTime = startTime, !.err = p.err]
                 /\ pc' = ExecuteFlowAfterClient(p.err)
                 /\ NoExchange
            ELSE \E resp \in Responses :
                    LET r == ClientExecuteFlowOnResponse(resp)
                    IN  /\ Exchange(p.req, resp)
                        /\ local' = [local EXCEPT !.startTime = startTime,
                                                  !.result = r.result,
                                                  !.err = r.err]
                        /\ pc' = ExecuteFlowAfterClient(r.err)
    /\ events' = Append(events, [ev |-> "client.ExecuteFlow"])
    /\ UNCHANGED <<wrapper, granted, call, ret>>

\* w.executor.OnError(ctx, err)
OnError ==
    /\ pc = "OnError"
    /\ \E execErr \in HookReturns(wrapper.executor) :
        /\ events' = Append(events, [ev |-> "OnError", err |-> local.err,
                                     returned |-> execErr])
        /\ Return(NilResult, ExecuteFlowAfterOnError(execErr, local.err))
    /\ UNCHANGED <<wrapper, granted, call, local, requests, responses>>

\* result.Duration = time.Since(startTime)
SetDuration ==
    /\ pc = "SetDuration"
    /\ \E now \in local.startTime..(local.startTime + MaxDelay) :
        /\ local' = [local EXCEPT
                        !.result = ExecuteFlowSetDuration(local.result,
                                                          local.startTime, now)]
        /\ events' = Append(events, [ev |-> "SetDuration", startTime |-> local.startTime,
                                     now |-> now])
    /\ pc' = "PostExecute"
    /\ UNCHANGED <<wrapper, granted, call, requests, responses, ret>>

\* w.executor.PostExecute(ctx, result)
PostExecute ==
    /\ pc = "PostExecute"
    /\ \E err \in HookReturns(wrapper.executor) :
        LET d == ExecuteFlowAfterPostExecute(err, local.result)
        IN  /\ events' = Append(events, [ev |-> "PostExecute", result |-> local.result,
                                         returned |-> err])
            /\ Return(d.result, d.err)
    /\ UNCHANGED <<wrapper, granted, call, local, requests, responses>>

(*-------------------------- GetFlow, DeleteFlow --------------------------*)
GetFlow ==
    \E flowID \in FlowIDs :
        LET err == GetFlowValidate(flowID)
        IN  /\ wrapper # NoWrapper
            /\ Enter([NoCall EXCEPT !.op = "GetFlow", !.flowID = flowID],
                     IF IsErr(err) THEN "done" ELSE "client.GetFlow")
            /\ ret' = IF IsErr(err)
                      THEN [op |-> "GetFlow", value |-> NilFlow, err |-> err,
                            panic |-> FALSE]
                      ELSE NoReturn
            /\ UNCHANGED <<wrapper, granted>>

\* Variant of ClientGetFlow that sends the GET again after a failure, up to
\* the config's RetryAttempts requests.
ClientGetFlow_Retrying ==
    /\ pc = "client.GetFlow"
    /\ LET p == ClientGetFlowRequest(wrapper.client, call.flowID)
       IN  IF IsErr(p.err)
           THEN /\ Return(NilFlow, p.err)
                /\ NoExchange
           ELSE \E resp \in Responses :
                    LET r == ClientGetFlowOnResponse(resp, call.flowID)
                    IN  /\ Exchange(p.req, resp)
                        /\ IF IsErr(r.err)
                              /\ Len(requests) + 1 < wrapper.config.RetryAttempts
                           THEN pc' = pc /\ UNCHANGED ret
                           ELSE Return(r.flow, r.err)
    /\ events' = Append(events, [ev |-> "client.GetFlow"])
    /\ UNCHANGED <<wrapper, granted, call, local>>

ClientGetFlow ==
    /\ pc = "client.GetFlow"
    /\ LET p == ClientGetFlowRequest(wrapper.client, call.flowID)
       IN  IF IsErr(p.err)
           THEN /\ Return(NilFlow, p.err)
                /\ NoExchange
           ELSE \E resp \in Responses :
                    LET r == ClientGetFlowOnResponse(resp, call.flowID)
                    IN  /\ Exchange(p.req, resp)
                        /\ Return(r.flow, r.err)
    /\ events' = Append(events, [ev |-> "client.GetFlow"])
    /\ UNCHANGED <<wrapper, granted, call, local>>

DeleteFlow ==
    \E flowID \in FlowIDs :
        LET err == DeleteFlowValidate(flowID)
        IN  /\ wrapper # NoWrapper
            /\ Enter([NoCall EXCEPT !.op = "DeleteFlow", !.flowID = flowID],
                     IF IsErr(err) THEN "done" ELSE "client.DeleteFlow")
            /\ ret' = IF IsErr(err)
                      THEN [op |-> "DeleteFlow", value |-> NilResult, err |-> err,
                            panic |-> FALSE]
                      ELSE NoReturn
            /\ UNCHANGED <<wrapper, granted>>

ClientDeleteFlow ==
    /\ pc = "client.DeleteFlow"
    /\ LET p == ClientDeleteFlowRequest(wrapper.client, call.flowID)
       IN  IF IsErr(p.err)
           THEN /\ Return(NilResult, p.err)
                /\ NoExchange
           ELSE \E resp \in Responses :
                    /\ Exchange(p.req, resp)
                    /\ Return(NilResult, ClientDeleteFlowOnResponse(resp, call.flowID))
    /\ events' = Append(events, [ev |-> "client.DeleteFlow"])
    /\ UNCHANGED <<wrapper, granted, call, local>>

(*----------------------- DeployWorkflow, ExecuteWorkflow ------------------*)
\* workflows a caller may pass to the facade
CallerWorkflows ==
    {Workflow(PtrFlowDefinition, NilFlow),
     Workflow(PtrFlowDefinition,
              Flow("f1", "Two nodes", "described", <<NodeInject, NodeDebug>>,
                   <<[Source |-> "n1", Target |-> "n2"]>>)),
     Workflow(MapStringInterface, << >>),
     Workflow(MapStringInterface, "id" :> Str("f1")),
     Workflow("string", Str("f1"))}

\* a facade call that ends before it reaches the flow operation it
\* delegates to: the converter's call is its one event
EndsInConversion(op, workflow, r, next, err) ==
    /\ Idle
    /\ call' = [NoCall EXCEPT !.op = op, !.input = workflow, !.flow = r.flow]
    /\ local' = NoLocal
    /\ events' = <<[ev |-> "ConvertToNodeRedFlow", workflow |-> workflow,
                    flow |-> r.flow, returned |-> r.err]>>
    /\ requests' = << >>
    /\ responses' = << >>
    /\ pc' = next
    /\ ret' = [op |-> op, value |-> NilResult, err |-> err,
               panic |-> next = "panic"]

\* wrapper DeployWorkflow: convert, then DeployFlow with the flow produced.
\* A call that passes the conversion and DeployFlow's checks goes on as the
\* DeployFlow call it has become.
DeployWorkflow ==
    /\ wrapper # NoWrapper
    /\ \E workflow \in CallerWorkflows :
        \E r \in ConverterReturns(wrapper.converter, workflow) :
            LET d == DeployWorkflowAfterConvert(r)
            IN  /\ IF d.next = "return"
                   THEN EndsInConversion("DeployWorkflow", workflow, r, "done", d.err)
                   ELSE /\ Enter([NoCall EXCEPT !.op = "DeployFlow", !.flow = r.flow],
                                 d.next)
                        /\ ret' = NoReturn
                /\ UNCHANGED <<wrapper, granted>>

\* wrapper ExecuteWorkflow: convert, then ExecuteFlow with the identifier of
\* the flow produced.  A call that passes the conversion and ExecuteFlow's
\* check goes on as the ExecuteFlow call it has become.
ExecuteWorkflow ==
    /\ wrapper # NoWrapper
    /\ \E workflow \in CallerWorkflows, input \in Inputs :
        \E r \in ConverterReturns(wrapper.converter, workflow) :
            LET d == ExecuteWorkflowAfterConvert(r)
            IN  /\ IF d.next = "return"
                   THEN EndsInConversion("ExecuteWorkflow", workflow, r, "done", d.err)
                   ELSE IF d.next = "panic"
                   THEN EndsInConversion("ExecuteWorkflow", workflow, r, "panic", NoErr)
                   ELSE /\ Enter([NoCall EXCEPT !.op = "ExecuteFlow",
                                                !.flowID = r.flow.ID,
                                                !.input = input],
                                 d.next)
                        /\ ret' = NoReturn
                /\ UNCHANGED <<wrapper, granted>>

(*----------------------------- HealthCheck ------------------------------*)
\* the facade's HealthCheck hands the call to the client, with no check
HealthCheck ==
    /\ wrapper # NoWrapper
    /\ Enter([NoCall EXCEPT !.op = "HealthCheck"], "client.HealthCheck")
    /\ ret' = NoReturn
    /\ UNCHANGED <<wrapper, granted>>

ClientHealthCheck ==
    /\ pc = "client.HealthCheck"
    /\ LET p == ClientHealthCheckRequest(wrapper.client)
       IN  IF IsErr(p.err)
           THEN /\ Return(NilResult, p.err)
                /\ NoExchange
           ELSE \E resp \in Responses :
                    /\ Exchange(p.req, resp)
                    /\ Return(NilResult, ClientHealthCheckOnResponse(resp))
    /\ events' = Append(events, [ev |-> "client.HealthCheck"])
    /\ UNCHANGED <<wrapper, granted, call, local>>

(*----------------------------- GetAuthToken -----------------------------*)
\* a caller authenticates the wrapper's client
CallGetAuthToken ==
    \E cred \in Credentials :
        /\ wrapper # NoWrapper
        /\ Enter([NoCall EXCEPT !.op = "GetAuthToken",
                                !.username = cred.username,
                                !.password = cred.password],
                 "client.GetAuthToken")
        /\ ret' = NoReturn
        /\ UNCHANGED <<wrapper, granted>>

ClientGetAuthToken ==
    /\ pc = "client.GetAuthToken"
    /\ LET p == GetAuthTokenRequest(wrapper.client, call.username, call.password)
       IN  IF IsErr(p.err)
           THEN /\ Return([token |-> ""], p.err)
                /\ NoExchange
                /\ UNCHANGED <<wrapper, granted>>
           ELSE \E resp \in Responses :
                    LET r == GetAuthTokenOnResponse(resp)
                    IN  /\ Exchange(p.req, resp)
                        /\ Return([token |-> r.token], r.err)
                        /\ wrapper' = [wrapper EXCEPT
                                         !.client = GetAuthTokenStore(wrapper.client, r)]
                        /\ granted' = IF IsErr(r.err) THEN granted ELSE r.token
    /\ events' = Append(events, [ev |-> "client.GetAuthToken"])
    /\ UNCHANGED <<call, local>>

Next ==
    \/ CallNew
    \/ CallNewWithConverter
    \/ CallNewWithExecutor
    \/ CallNewNodeRedClient
    \/ CallSetConverter
    \/ CallSetExecutor
    \/ CallGetConfig
    \/ DeployFlow
    \/ ClientDeployFlow
    \/ ClientCreateFlow
    \/ ExecuteFlow
    \/ PreExecute
    \/ ClientExecuteFlow
    \/ OnError
    \/ SetDuration
    \/ PostExecute
    \/ GetFlow
    \/ ClientGetFlow
    \/ DeleteFlow
    \/ ClientDeleteFlow
    \/ HealthCheck
    \/ ClientHealthCheck
    \/ CallGetAuthToken
    \/ ClientGetAuthToken
    \/ DeployWorkflow
    \/ ExecuteWorkflow

Spec == Init /\ [][Next]_vars

(***************************************************************************)
(* Properties                                                              *)
(***************************************************************************)
EventNames == [i \in 1..Len(events) |-> events[i].ev]
HasEvent(name) == \E i \in 1..Len(events) : events[i].ev = name
InCall(op) == call.op = op
Returned(op) == pc = "done" /\ call.op = op

\* the current call is an ExecuteFlow whose PreExecute hook returned an error
PreExecuteFailed ==
    /\ InCall("ExecuteFlow")
    /\ Len(events) >= 1
    /\ events[1].ev = "PreExecute"
    /\ IsErr(events[1].returned)

\* C1: when PreExecute returns an error, ExecuteFlow (called with a
\* non-empty flow id) has returned an error and no result, and neither the
\* transport's ExecuteFlow (no HTTP request), nor OnError, nor PostExecute
\* was invoked in that call.
C1_PreExecuteFailureStopsCall ==
    PreExecuteFailed =>
        /\ call.flowID # ""
        /\ pc = "done"
        /\ IsErr(ret.err)
        /\ ErrorsIs(ret.err, events[1].returned)
        /\ ret.value = NilResult
        /\ requests = << >>
        /\ EventNames = <<"PreExecute">>

C1_Witness == PreExecuteFailed /\ pc = "done"

\* the transport call of the current ExecuteFlow failed
TransportFailed == IsErr(local.err)

\* C2: in an ExecuteFlow call with a non-empty flow id the events happen
\* one after another in this order: PreExecute once, then the transport's
\* ExecuteFlow once, then exactly one of OnError (the transport failed) and
\* PostExecute (it succeeded); the duration is set after the transport
\* returned and before PostExecute, which observes the elapsed time as the
\* result's duration.  A call whose PreExecute succeeded returns only after
\* one of the two complete sequences.
C2_HookOrder ==
    InCall("ExecuteFlow") /\ call.flowID # "" =>
        /\ EventNames \in
              {<< >>,
               <<"PreExecute">>,
               <<"PreExecute", "client.ExecuteFlow">>,
               <<"PreExecute", "client.ExecuteFlow", "OnError">>,
               <<"PreExecute", "client.ExecuteFlow", "SetDuration">>,
               <<"PreExecute", "client.ExecuteFlow", "SetDuration", "PostExecute">>}
        /\ Len(requests) <= 1
        /\ HasEvent("OnError") => TransportFailed
        /\ HasEvent("SetDuration") => ~TransportFailed
        /\ HasEvent("PostExecute") =>
              /\ ~events[4].result.nil
              /\ events[4].result.Duration = events[3].now - events[3].startTime
        /\ pc = "done" /\ ~PreExecuteFailed =>
              \/ TransportFailed /\ EventNames[Len(events)] = "OnError"
              \/ ~TransportFailed /\ EventNames[Len(events)] = "PostExecute"

\* a PostExecute hook ran on a result whose remote duration differed from
\* the elapsed time
C2_Witness ==
    /\ Returned("ExecuteFlow")
    /\ HasEvent("PostExecute")
    /\ responses[1].body = BodyResult
    /\ events[4].result.Duration = MaxDelay

\* C3: when the transport's ExecuteFlow fails, OnError is called with the
\* transport's error; if OnError returns an error the call returns an error
\* that wraps the hook's error and whose text names both that error and the
\* transport's; otherwise the call returns the transport's error itself.
\* In both cases no result is returned and PostExecute is not invoked.
C3_OnErrorReturn ==
    Returned("ExecuteFlow") /\ TransportFailed =>
        /\ EventNames = <<"PreExecute", "client.ExecuteFlow", "OnError">>
        /\ events[3].err = local.err
        /\ (responses # << >> /\ IsErr(responses[1].err)
               => ErrorsIs(events[3].err, responses[1].err))
        /\ ret.value = NilResult
        /\ IF IsErr(events[3].returned)
           THEN /\ ret.err # local.err
                /\ ErrorsIs(ret.err, events[3].returned)
                /\ ErrorText(events[3].returned) \subseteq ErrorText(ret.err)
                /\ ErrorText(local.err) \subseteq ErrorText(ret.err)
           ELSE ret.err = local.err

\* the transport failed on the network and OnError failed too
C3_Witness ==
    /\ Returned("ExecuteFlow")
    /\ TransportFailed
    /\ responses # << >>
    /\ IsErr(responses[1].err)
    /\ HasEvent("OnError")
    /\ IsErr(events[3].returned)

\* the current ExecuteFlow's PostExecute hook returned an error
PostExecuteFailed ==
    /\ InCall("ExecuteFlow")
    /\ Len(events) = 4
    /\ events[4].ev = "PostExecute"
    /\ IsErr(events[4].returned)

\* C4: when the transport's ExecuteFlow succeeds but PostExecute returns an
\* error, ExecuteFlow returns an error and no result (the decoded result
\* is not handed to the caller), and OnError is not invoked.
C4_PostExecuteFailure ==
    PostExecuteFailed =>
        /\ pc = "done"
        /\ ~TransportFailed
        /\ ~local.result.nil
        /\ IsErr(ret.err)
        /\ ErrorsIs(ret.err, events[4].returned)
        /\ ret.value = NilResult
        /\ ~HasEvent("OnError")

C4_Witness == PostExecuteFailed /\ pc = "done" /\ responses[1].status = StatusOK

\* the server answered request i of the current call with this status
Answered(i, status) ==
    /\ Len(responses) >= i
    /\ responses[i].err = NoErr
    /\ responses[i].status = status

\* C5: in the transport's DeployFlow the create request (POST /flow) is
\* sent if and only if the update request (PUT /flow/{id}) was answered
\* with 404, then once and with the PUT's body; a PUT answered otherwise,
\* or failing on the network, is not followed by a POST, and nothing
\* follows the POST.
C5_CreateOnlyAfter404 ==
    InCall("DeployFlow") =>
        /\ Len(requests) <= 2
        /\ Len(requests) >= 1 =>
              /\ requests[1].method = "PUT"
              /\ requests[1].url = <<wrapper.client.baseURL, "/flow/", call.flow.ID>>
        /\ Len(requests) = 2 =>
              /\ Answered(1, StatusNotFound)
              /\ requests[2].method = "POST"
              /\ requests[2].url = <<wrapper.client.baseURL, "/flow">>
              /\ requests[2].body = requests[1].body
              /\ pc = "done"
        /\ Len(requests) = 1 /\ Answered(1, StatusNotFound) => pc = "client.createFlow"
        /\ Len(requests) = 1 /\ ~Answered(1, StatusNotFound) => pc = "done"

\* the POST was sent after a 404, and was itself answered with 404
C5_Witness ==
    /\ Returned("DeployFlow")
    /\ Len(requests) = 2
    /\ Answered(2, StatusNotFound)
    /\ Len(call.flow.Nodes) = 2

\* C6: the transport's DeployFlow returns success exactly when the last
\* request it made was answered with status 200; every other final status
\* (a 404 answer to the POST too) yields an error whose text holds the
\* status code and the response body.
C6_DeploySuccessOn200 ==
    Returned("DeployFlow") =>
        /\ (ret.err = NoErr) <=>
              (requests # << >> /\ Answered(Len(requests), StatusOK))
        /\ \A s \in Statuses \ {StatusOK} :
              requests # << >> /\ Answered(Len(requests), s) =>
                  /\ IsErr(ret.err)
                  /\ Num(s) \in ErrorText(ret.err)
                  /\ BodyText(responses[Len(responses)].body) \in ErrorText(ret.err)

C6_Witness ==
    /\ Returned("DeployFlow")
    /\ Len(requests) = 2
    /\ Answered(2, StatusNotFound)
    /\ IsErr(ret.err)

\* the current DeployFlow was given no flow, or a flow without identifier
InvalidFlow == call.flow.nil \/ call.flow.ID = ""

\* C7: for a flow that is unset or whose identifier is empty the wrapper's
\* DeployFlow returns a validation error and issues no HTTP request; for a
\* flow with an identifier it hands over to the transport's DeployFlow.
C7_DeployFlowValidation ==
    InCall("DeployFlow") =>
        IF InvalidFlow
        THEN /\ pc = "done"
             /\ ret.err \in {Errorf("flow is required", << >>, NoErr),
                             Errorf("flow ID is required", << >>, NoErr)}
             /\ requests = << >>
             /\ events = << >>
        ELSE \/ pc = "client.DeployFlow" /\ events = << >>
             \/ Len(events) >= 1 /\ events[1].ev = "client.DeployFlow"

C7_Witness ==
    /\ Returned("DeployFlow")
    /\ ~call.flow.nil
    /\ call.flow.ID = ""

\* C8: for the empty flow id the wrapper's ExecuteFlow, GetFlow and
\* DeleteFlow each return a validation error (and no result) without any
\* hook being called or HTTP request being issued.
C8_EmptyFlowID ==
    call.op \in {"ExecuteFlow", "GetFlow", "DeleteFlow"} /\ call.flowID = "" =>
        /\ pc = "done"
        /\ ret.err = Errorf("flow ID is required", << >>, NoErr)
        /\ ret.value = NilResult
        /\ requests = << >>
        /\ events = << >>

C8_Witness == Returned("DeleteFlow") /\ call.flowID = ""

\* the current call is a constructor given this kind of config
Constructing(ops) == pc \in {"done", "panic"} /\ call.op \in ops
BadConfig == call.config.nil \/ call.config.NodeRedURL = ""

\* C9: construction (the wrapper's New and NewNodeRedClient) fails, with
\* an error and no instance, for an unset config and for a config whose
\* base URL is empty, and succeeds for a config whose base URL is not
\* empty; after a successful New, GetConfig returns the config passed in.
C9_Construction ==
    Constructing({"New", "NewNodeRedClient"}) =>
        IF BadConfig
        THEN /\ pc = "done"
             /\ ~ret.panic
             /\ IsErr(ret.err)
             /\ ret.value.nil
        ELSE /\ pc = "done"
             /\ ret.err = NoErr
             /\ ~ret.value.nil
             /\ call.op = "New" => GetConfig(wrapper) = call.config

\* the statement in force of the wrapper's New alone
C9_NewAlone == Constructing({"New"}) => C9_Construction

\* the generic status error of GetFlow and DeleteFlow for status s
IsStatusError(e, s) ==
    /\ IsErr(e)
    /\ "fmt" \in DOMAIN e
    /\ e.fmt \in {"failed to get flow: status %d", "failed to delete flow: status %d"}
    /\ Num(s) \in ErrorText(e)

\* the "not found" error naming flow id
IsNotFoundError(e, id) ==
    /\ IsErr(e)
    /\ "fmt" \in DOMAIN e
    /\ e.fmt = "flow not found: %s"
    /\ Str(id) \in ErrorText(e)

\* what GetFlow and DeleteFlow return for 404 and for the other statuses
\* that are not 200
NotFoundIsDistinct ==
    /\ Answered(1, StatusNotFound) =>
          /\ IsNotFoundError(ret.err, call.flowID)
          /\ \A s \in Statuses : ~IsStatusError(ret.err, s)
          /\ ret.value.nil
    /\ \A s \in Statuses \ {StatusOK, StatusNotFound} :
          Answered(1, s) =>
              /\ IsStatusError(ret.err, s)
              /\ ~IsNotFoundError(ret.err, call.flowID)
              /\ ret.value.nil

\* C10 as claimed: GetFlow and DeleteFlow answered with 404 return a
\* "not found" error naming the flow id, distinct from the status error of
\* every other status that is not 200; a 200 answer yields success (for
\* GetFlow, the decoded flow).
C10_AsClaimed ==
    Returned("GetFlow") \/ Returned("DeleteFlow") =>
        /\ NotFoundIsDistinct
        /\ Answered(1, StatusOK) =>
              /\ ret.err = NoErr
              /\ InCall("GetFlow") =>
                    ret.value = DecodeFlowDefinition(responses[1].body).flow

\* C10, amended: as claimed for 404 and the other statuses; a 200 answer
\* yields success for DeleteFlow, and for GetFlow when the body decodes as
\* a flow (the decoded flow is returned); a 200 answer whose body does not
\* decode makes GetFlow return a decode error and no flow.
C10_NotFoundAndSuccess ==
    Returned("GetFlow") \/ Returned("DeleteFlow") =>
        /\ NotFoundIsDistinct
        /\ Answered(1, StatusOK) /\ InCall("DeleteFlow") => ret.err = NoErr
        /\ Answered(1, StatusOK) /\ InCall("GetFlow") =>
              IF IsErr(DecodeFlowDefinition(responses[1].body).err)
              THEN /\ ret.value.nil
                   /\ ErrorsIs(ret.err, DecodeError)
                   /\ \A s \in Statuses : ~IsStatusError(ret.err, s)
                   /\ ~IsNotFoundError(ret.err, call.flowID)
              ELSE /\ ret.err = NoErr
                   /\ ret.value = DecodeFlowDefinition(responses[1].body).flow
                   /\ ~ret.value.nil

\* GetFlow was answered 404
C10_Witness == Returned("GetFlow") /\ Answered(1, StatusNotFound)

\* the last response of the current call
LastResponse == responses[Len(responses)]

\* the current call ended on a response whose status is not 200
EndedOnStatus(op) ==
    /\ Returned(op)
    /\ Len(responses) > 0
    /\ LastResponse.err = NoErr
    /\ LastResponse.status # StatusOK

\* error e carries status s and the raw response body b
CarriesStatusAndBody(e, s, b) ==
    /\ IsErr(e)
    /\ Num(s) \in ErrorText(e)
    /\ BodyText(b) \in ErrorText(e)

\* C11: whenever DeployFlow, GetFlow, DeleteFlow, HealthCheck or
\* GetAuthToken ends on a response whose status is not 200 (the 404 that
\* GetFlow and DeleteFlow answer with "not found" aside), the error it
\* returns carries both the numeric status and the raw response body.
C11_StatusErrorCarriesBody ==
    \A op \in {"DeployFlow", "GetFlow", "DeleteFlow", "HealthCheck", "GetAuthToken"} :
        (/\ EndedOnStatus(op)
         /\ ~(op \in {"GetFlow", "DeleteFlow"}
              /\ LastResponse.status = StatusNotFound))
        => CarriesStatusAndBody(ret.err, LastResponse.status, LastResponse.body)

\* the transport's ExecuteFlow was answered with a status that is not 200
ExecuteAnsweredNot200 ==
    /\ InCall("ExecuteFlow")
    /\ Len(responses) > 0
    /\ LastResponse.err = NoErr
    /\ LastResponse.status # StatusOK

\* C12: the transport's ExecuteFlow answered with a status that is not 200
\* returns an error and no result, so that the facade runs OnError and never
\* PostExecute; only a 200 answer yields an ExecutionResult.
C12_ExecuteNot200IsError ==
    ExecuteAnsweredNot200 =>
        /\ TransportFailed
        /\ local.result = NilResult
        /\ ~HasEvent("PostExecute")
        /\ pc = "done" => HasEvent("OnError")

\* the Authorization header a request of a client with bearer token apiKey
\* carries according to C13
BearerHeader(apiKey) == IF apiKey # "" THEN <<"Bearer ", apiKey>> ELSE NoHeader

\* C13: every request the client sends (DeployFlow's PUT and POST,
\* ExecuteFlow, GetFlow, DeleteFlow, HealthCheck, GetAuthToken) carries
\* "Authorization: Bearer <token>" with the client's token at that time when
\* the token is not empty, and no Authorization header when it is empty.
C13_BearerOnEveryRequest ==
    [][Len(requests') > Len(requests) =>
           requests'[Len(requests')].Authorization
               = BearerHeader(wrapper.client.apiKey)]_vars

\* the operations whose requests C14 speaks of
FlowOps == {"DeployFlow", "ExecuteFlow", "GetFlow", "DeleteFlow"}

\* C14: a GetAuthToken that returns without error returns a non-empty token
\* T and makes it the client's token, whatever token was configured; from
\* then on every request of DeployFlow, ExecuteFlow, GetFlow and DeleteFlow
\* on that client carries "Authorization: Bearer T", until a later
\* successful GetAuthToken replaces T (granted is the token of the last
\* successful GetAuthToken on the wrapper's client).
C14_GrantedTokenIsSent ==
    /\ (Returned("GetAuthToken") /\ ~IsErr(ret.err)) =>
           /\ ret.value.token \in Tokens
           /\ granted = ret.value.token
    /\ (Returned("GetAuthToken") /\ IsErr(ret.err)) => ret.value.token = ""
    /\ granted # "" =>
           /\ wrapper.client.apiKey = granted
           /\ call.op \in FlowOps =>
                  \A i \in 1..Len(requests) :
                      requests[i].Authorization = <<"Bearer ", granted>>

\* a request of GetFlow goes out with a granted token that replaced the
\* configured one
C14_Witness ==
    /\ InCall("GetFlow")
    /\ Len(requests) = 1
    /\ wrapper.config.APIKey = "key0"
    /\ granted = "tok2"
    /\ requests[1].Authorization = <<"Bearer ", "tok2">>

(***************************************************************************)
(* The translator and the default converter on their own: one application  *)
(* of the function to an input drawn from a bounded set                    *)
(***************************************************************************)
\* property mappings of a node: none, plain keys, and keys that are also
\* keys of the node object itself
PropertyMaps ==
    {<< >>,
     "topic" :> Str("t"),
     ("topic" :> Str("t")) @@ ("payload" :> Str("p")),
     "id" :> Str("other"),
     ("type" :> Str("othertype")) @@ ("topic" :> Str("t")),
     ("wires" :> Str("none")) @@ ("z" :> Str("elsewhere"))
         @@ ("name" :> Str("renamed")) @@ ("x" :> Num(0)) @@ ("y" :> Num(0))}

TranslatorNodes ==
    {[ID |-> id, Type |-> "inject", Name |-> "Node", X |-> 10, Y |-> 20,
      Wires |-> w, Properties |-> p] :
        id \in {"n1", "n2"}, w \in {<< >>, << <<"n2">> >>}, p \in PropertyMaps}

\* flows of up to MaxNodes nodes, with and without a description
TranslatorFlows ==
    {Flow("f1", "Flow", d, nodes, << >>) :
        d \in {"", "described"},
        nodes \in UNION {[1..n -> TranslatorNodes] : n \in 0..MaxNodes}}

\* convertFlowToNodeRedFormat applied to one flow
ApplyConvertFlow ==
    \E flow \in TranslatorFlows :
        /\ pc = "idle"
        /\ pc' = "done"
        /\ call' = [NoCall EXCEPT !.op = "convertFlowToNodeRedFormat",
                                  !.flow = flow]
        /\ ret' = [op |-> "convertFlowToNodeRedFormat",
                   value |-> [list |-> convertFlowToNodeRedFormat(flow)],
                   err |-> NoErr, panic |-> FALSE]
        /\ UNCHANGED <<wrapper, granted, local, events, requests, responses>>

\* keys of a workflow mapping: the four the converter reads, and one more
WorkflowKeys == {"id", "name", "description", "version", "nodes"}
\* values a workflow mapping may hold under a key: strings, and a number
WorkflowValues == {Str("a"), Str("b"), Num(7)}
WorkflowMaps == UNION {[K -> WorkflowValues] : K \in SUBSET WorkflowKeys}

\* what a caller may pass as workflow: a flow pointer (nil included), a
\* mapping, a plain string, a number, a flow by value, nothing at all
Workflows ==
    {Workflow(PtrFlowDefinition, f) : f \in Flows} \cup
    {Workflow(MapStringInterface, m) : m \in WorkflowMaps} \cup
    {Workflow("string", Str("f1")), Workflow("string", Str("")),
     Workflow("int", Num(7)),
     Workflow("types.FlowDefinition", Flow("f1", "By value", "", << >>, << >>)),
     Workflow("<nil>", [nil |-> TRUE])}

\* DefaultConverter.ConvertToNodeRedFlow applied to one workflow
ApplyConvertToNodeRedFlow ==
    \E workflow \in Workflows :
        LET r == ConvertToNodeRedFlow(workflow)
        IN  /\ pc = "idle"
            /\ pc' = "done"
            /\ call' = [NoCall EXCEPT !.op = "ConvertToNodeRedFlow",
                                      !.input = workflow]
            /\ ret' = [op |-> "ConvertToNodeRedFlow", value |-> r.flow,
                       err |-> r.err, panic |-> FALSE]
            /\ UNCHANGED <<wrapper, granted, local, events, requests, responses>>

\* the fields of a flow the translator has no use for: connections,
\* version, metadata and timestamps
FlowExtras ==
    [Connections : {<< >>, <<[Source |-> "n1", Target |-> "n2"]>>},
     Version : {"1.0.0", "2.0.0"},
     Metadata : {<< >>, "owner" :> Str("me")},
     UpdatedAt : {0, 1}]

\* flows that differ in what the translator reads and in what it does not
FlowVariants ==
    {[Connections |-> x.Connections, Version |-> x.Version,
      Metadata |-> x.Metadata, UpdatedAt |-> x.UpdatedAt,
      nil |-> FALSE, ID |-> f.ID, Name |-> f.Name,
      Description |-> f.Description, Nodes |-> f.Nodes] :
        f \in Flows \ {NilFlow}, x \in FlowExtras}

\* a client to build Deploy requests with
DeployClient ==
    [nil |-> FALSE, baseURL |-> "http://nr:1880", apiKey |-> "key0", debug |-> TRUE]

\* the translator, and DeployFlow up to its PUT, applied to two flows
ApplyConvertFlowTwice ==
    \E flow \in FlowVariants, other \in FlowVariants :
        /\ pc = "idle"
        /\ pc' = "done"
        /\ call' = [NoCall EXCEPT !.op = "convertFlowToNodeRedFormat twice",
                                  !.flow = flow, !.input = other]
        /\ ret' = [op |-> "convertFlowToNodeRedFormat twice",
                   value |-> [wire |-> convertFlowToNodeRedFormat(flow),
                              otherWire |-> convertFlowToNodeRedFormat(other),
                              deploy |-> DeployFlowRequest(DeployClient, flow),
                              otherDeploy |-> DeployFlowRequest(DeployClient, other)],
                   err |-> NoErr, panic |-> FALSE]
        /\ UNCHANGED <<wrapper, granted, local, events, requests, responses>>

NextPure ==
    \/ ApplyConvertFlow
    \/ ApplyConvertToNodeRedFlow
    \/ ApplyConvertFlowTwice

SpecPure == Init /\ [][NextPure]_vars

\* the translator returned: its input and its output
Translated == Returned("convertFlowToNodeRedFormat")
TranslatorIn == call.flow
TranslatorOut == ret.value.list

\* the output has one object more than the flow has nodes, the first being
\* the container of the flow
ContainerFirst ==
    /\ Len(TranslatorOut) = Len(TranslatorIn.Nodes) + 1
    /\ TranslatorOut[1]["type"] = Str("tab")
    /\ TranslatorOut[1]["id"] = Str(TranslatorIn.ID)
    /\ TranslatorOut[1]["label"] = Str(TranslatorIn.Name)

\* the node object's value under key k is the node's own
OwnField(i, k) ==
    LET node == TranslatorIn.Nodes[i]
        own == ("id" :> Str(node.ID)) @@ ("type" :> Str(node.Type))
               @@ ("wires" :> WiresValue(node.Wires))
    IN  /\ k \in DOMAIN TranslatorOut[i + 1]
        /\ TranslatorOut[i + 1][k] = own[k]

\* C15 as stated: for a flow of N nodes and any property mappings the
\* translator yields N+1 objects, the first being the container, and object
\* i+1 carries node i's identifier, type and wires and every key of node i's
\* property mapping.
C15_AsClaimed ==
    Translated =>
        /\ ContainerFirst
        /\ \A i \in 1..Len(TranslatorIn.Nodes) :
               /\ \A k \in {"id", "type", "wires"} : OwnField(i, k)
               /\ DOMAIN TranslatorIn.Nodes[i].Properties
                      \subseteq DOMAIN TranslatorOut[i + 1]

\* C15, amended: N+1 objects, the first being the container; object i+1
\* holds every key of node i's property mapping with the property's value,
\* and node i's identifier, type and wires under "id", "type" and "wires"
\* where the property mapping has no key of that name.
C15_PropertiesWin ==
    Translated =>
        /\ ContainerFirst
        /\ \A i \in 1..Len(TranslatorIn.Nodes) :
               LET props == TranslatorIn.Nodes[i].Properties
               IN  /\ \A k \in DOMAIN props :
                          /\ k \in DOMAIN TranslatorOut[i + 1]
                          /\ TranslatorOut[i + 1][k] = props[k]
                   /\ \A k \in {"id", "type", "wires"} \ DOMAIN props :
                          OwnField(i, k)

\* a flow of two nodes is translated, one node with a property named "id"
\* and one with plain properties only
C15_Witness ==
    /\ Translated
    /\ Len(TranslatorIn.Nodes) = 2
    /\ "id" \in DOMAIN TranslatorIn.Nodes[1].Properties
    /\ DOMAIN TranslatorIn.Nodes[2].Properties = {"topic", "payload"}
    /\ Len(TranslatorOut) = 3

\* the translator's wire format of the flow being deployed
WireFormat == convertFlowToNodeRedFormat(call.flow)

Converted == Returned("ConvertToNodeRedFlow")
ConvertedFrom(type) == Converted /\ call.input.type = type

\* C17: given a *types.FlowDefinition the default converter returns that
\* same flow, unchanged, and no error, whatever the flow holds (an empty
\* identifier included).
C17_FlowIsReturnedUnchanged ==
    ConvertedFrom(PtrFlowDefinition) =>
        /\ ret.value = call.input.value
        /\ ret.err = NoErr

\* a flow without an identifier went through the converter
C17_Witness ==
    /\ ConvertedFrom(PtrFlowDefinition)
    /\ ~call.input.value.nil
    /\ call.input.value.ID = ""
    /\ ret.value = call.input.value

\* the string the mapping holds under key k, "" when the key is absent or
\* holds something else
StringOrZero(m, k) ==
    IF k \in DOMAIN m
    THEN IF "str" \in DOMAIN m[k] THEN m[k].str ELSE ""
    ELSE ""

\* C18: given a string-keyed mapping the default converter returns no error
\* and a new flow whose ID, Name, Description and Version are the values
\* under "id", "name", "description" and "version" where these are strings,
\* and the zero value where the key is absent or holds another type; every
\* other field is zero, and other keys are ignored.
C18_MappingFields ==
    ConvertedFrom(MapStringInterface) =>
        LET m == call.input.value
        IN  /\ ret.err = NoErr
            /\ ~ret.value.nil
            /\ ret.value.ID = StringOrZero(m, "id")
            /\ ret.value.Name = StringOrZero(m, "name")
            /\ ret.value.Description = StringOrZero(m, "description")
            /\ ret.value.Version = StringOrZero(m, "version")
            /\ ret.value.Nodes = << >>
            /\ ret.value.Connections = << >>

\* a mapping with a string id, a number as name, no description, a string
\* version and a key the converter does not know went through
C18_Witness ==
    /\ ConvertedFrom(MapStringInterface)
    /\ DOMAIN call.input.value = {"id", "name", "version", "nodes"}
    /\ call.input.value["id"] = Str("a")
    /\ call.input.value["name"] = Num(7)
    /\ call.input.value["version"] = Str("b")
    /\ ret.value.ID = "a"
    /\ ret.value.Name = ""
    /\ ret.value.Version = "b"

\* C19: given anything that is neither a *types.FlowDefinition nor a
\* string-keyed mapping (a plain string, a number, a flow by value, nothing)
\* the default converter returns no flow and an "unsupported workflow type"
\* error that names the dynamic type of what it was given.
C19_UnsupportedType ==
    (Converted /\ call.input.type \notin {PtrFlowDefinition, MapStringInterface}) =>
        /\ ret.value = NilFlow
        /\ IsErr(ret.err)
        /\ ret.err.fmt = "unsupported workflow type: %T"
        /\ ret.err.args = <<Str(call.input.type)>>

\* a plain string was refused
C19_Witness ==
    /\ ConvertedFrom("string")
    /\ IsErr(ret.err)
    /\ Str("string") \in ErrorText(ret.err)

\* C20: the hooks of the default executor return no error, whatever they
\* are given; so an ExecuteFlow on a wrapper with the default executor
\* fails only through its validation (before any hook) or through the
\* transport, and when the transport fails it returns exactly the
\* transport's error.
C20_DefaultExecutor ==
    (InCall("ExecuteFlow") /\ wrapper.executor = "DefaultExecutor") =>
        /\ \A i \in 1..Len(events) :
               "returned" \in DOMAIN events[i] => events[i].returned = NoErr
        /\ (Returned("ExecuteFlow") /\ IsErr(ret.err)) =>
               \/ /\ call.flowID = ""
                  /\ ret.err = ExecuteFlowValidate("")
                  /\ events = << >>
               \/ /\ call.flowID # ""
                  /\ TransportFailed
                  /\ ret.err = local.err
        /\ (Returned("ExecuteFlow") /\ ~IsErr(ret.err)) =>
               /\ ~TransportFailed
               /\ HasEvent("PostExecute")

\* with the default executor the transport failed, OnError ran, and the
\* call returned the transport's error
C20_Witness ==
    /\ Returned("ExecuteFlow")
    /\ wrapper.executor = "DefaultExecutor"
    /\ TransportFailed
    /\ HasEvent("OnError")
    /\ ret.err = local.err

\* the operations that send one request
SingleRequestOps ==
    {"ExecuteFlow", "GetFlow", "DeleteFlow", "HealthCheck", "GetAuthToken"}

\* C21: no operation retries.  Whatever the responses and failures, and
\* whatever retry-attempt count the config holds, a call of ExecuteFlow,
\* GetFlow, DeleteFlow, HealthCheck or GetAuthToken sends at most one
\* request and a call of DeployFlow at most two, a PUT and then at most one
\* POST; the facade hands a call to the transport at most once.
C21_NoRetry ==
    /\ call.op \in SingleRequestOps => Len(requests) <= 1
    /\ InCall("DeployFlow") =>
           /\ Len(requests) <= 2
           /\ Len(requests) >= 1 => requests[1].method = "PUT"
           /\ Len(requests) = 2 => requests[2].method = "POST"
    /\ call.op \notin SingleRequestOps \cup {"DeployFlow"} => requests = << >>
    /\ \A i, j \in 1..Len(events) :
           (events[i].ev = events[j].ev) => i = j

\* a GetFlow of a client whose config asks for three retry attempts failed
\* on the network and returned after its one request
C21_Witness ==
    /\ Returned("GetFlow")
    /\ wrapper.config.RetryAttempts = RetryAttempts
    /\ Len(requests) = 1
    /\ IsErr(responses[1].err)
    /\ IsErr(ret.err)

\* the last request of the current call failed on the network
NetworkFailed == Len(responses) > 0 /\ IsErr(LastResponse.err)

\* the last request of the current call was answered with a body that is
\* not JSON, in an operation that decodes the body
NotJSONAnswered ==
    /\ call.op \in {"ExecuteFlow", "GetFlow", "GetAuthToken"}
    /\ Len(responses) > 0
    /\ ~IsErr(LastResponse.err)
    /\ "json" \notin DOMAIN LastResponse.body

\* what an operation returns beside its error when it has no result
NoResultOf(op) == IF op = "GetAuthToken" THEN [token |-> ""] ELSE [nil |-> TRUE]

\* C22: a network failure of the request of any transport operation, and a
\* response body that is not JSON in ExecuteFlow, GetFlow and GetAuthToken,
\* make the operation return an error and no result; a network failure is
\* wrapped in the error returned.  None of them ends in a success.
C22_FailuresAreErrors ==
    (NetworkFailed \/ NotJSONAnswered) =>
        IF InCall("ExecuteFlow")
        THEN /\ TransportFailed
             /\ local.result = NilResult
             /\ NetworkFailed => ErrorsIs(local.err, LastResponse.err)
             /\ ~HasEvent("PostExecute")
             /\ pc = "done" => (IsErr(ret.err) /\ ret.value = NilResult)
        ELSE /\ pc = "done"
             /\ IsErr(ret.err)
             /\ ret.value = NoResultOf(call.op)
             /\ NetworkFailed => ErrorsIs(ret.err, LastResponse.err)

\* ExecuteFlow was answered 200 with a body that is not JSON and returned an
\* error
C22_Witness ==
    /\ Returned("ExecuteFlow")
    /\ NotJSONAnswered
    /\ LastResponse.status = StatusOK
    /\ IsErr(ret.err)

\* the "failed to convert workflow" error
IsConvertError(e) ==
    /\ IsErr(e)
    /\ "fmt" \in DOMAIN e
    /\ e.fmt = "failed to convert workflow: %w"

\* the one call of the converter in a call that ended in its conversion
Conversion == events[1]

\* the error DeployFlow's checks answer an unset flow and a flow without an
\* identifier with
FlowValidationError(flow) ==
    IF flow.nil THEN Errorf("flow is required", << >>, NoErr)
    ELSE Errorf("flow ID is required", << >>, NoErr)

\* C23: DeployWorkflow calls the active converter first.  When the
\* converter fails the call returns a "failed to convert workflow" error
\* that wraps the converter's, and sends no request; when the converter
\* succeeds with a flow that is unset or has no identifier the call returns
\* DeployFlow's validation error, which is not a conversion error, and sends
\* no request.  No DeployFlow call, reached through DeployWorkflow or not,
\* returns a conversion error.
C23_DeployWorkflow ==
    /\ Returned("DeployWorkflow") =>
           /\ EventNames = <<"ConvertToNodeRedFlow">>
           /\ Conversion.workflow = call.input
           /\ wrapper.converter = "DefaultConverter" =>
                  /\ Conversion.flow = ConvertToNodeRedFlow(call.input).flow
                  /\ Conversion.returned = ConvertToNodeRedFlow(call.input).err
           /\ requests = << >>
           /\ IF IsErr(Conversion.returned)
              THEN /\ IsConvertError(ret.err)
                   /\ ErrorsIs(ret.err, Conversion.returned)
              ELSE /\ Conversion.flow.nil \/ Conversion.flow.ID = ""
                   /\ ret.err = FlowValidationError(Conversion.flow)
                   /\ ~IsConvertError(ret.err)
    /\ Returned("DeployFlow") => ~IsConvertError(ret.err)

\* the default converter was given a mapping without an id: DeployWorkflow
\* returned the validation error and sent nothing
C23_Witness ==
    /\ Returned("DeployWorkflow")
    /\ wrapper.converter = "DefaultConverter"
    /\ call.input = Workflow(MapStringInterface, << >>)
    /\ ret.err = Errorf("flow ID is required", << >>, NoErr)
    /\ requests = << >>

\* a caller's converter failed: DeployWorkflow returned the conversion error
C23_WitnessConvertError ==
    /\ Returned("DeployWorkflow")
    /\ wrapper.converter = "CustomConverter"
    /\ IsConvertError(ret.err)

(***************************************************************************)
(* Two goroutines on one client: one runs GetAuthToken, the other GetFlow  *)
(* or DeleteFlow.  The client has no lock of its own: c.apiKey is written  *)
(* at client.go:347 and read at client.go:217-219 and 252-254.  A caller   *)
(* that serialises its calls holds a mutex of its own around each call.    *)
(* Here pc holds one position per goroutine, and local holds the caller's  *)
(* mutex and the memory accesses in progress.                              *)
(***************************************************************************)
\* what a read of c.apiKey that overlaps the write may return beside the old
\* and the new token: a string header torn between the two
TornToken == "torn"

\* what the token endpoint and the flow endpoint answer in this scenario
RaceAuthResponses ==
    {[err |-> NoErr, status |-> StatusOK, body |-> BodyToken(t)] : t \in Tokens} \cup
    {[err |-> NoErr, status |-> 401, body |-> BodyErrorDoc],
     [err |-> NetError("connection refused"), status |-> 0, body |-> BodyNotJSON]}
RaceOpResponses ==
    {[err |-> NoErr, status |-> StatusOK, body |-> BodyFlow],
     [err |-> NoErr, status |-> StatusNotFound, body |-> BodyErrorDoc]}

NoAccess ==
    [serialised |-> FALSE, mutex |-> "free", writing |-> FALSE, reading |-> FALSE,
     raced |-> FALSE, old |-> "", token |-> "",
     read |-> [tested |-> "", sent |-> ""]]

InitRace ==
    /\ \E config \in Configs \ {NilConfig} :
           /\ ~IsErr(New(config).err)
           /\ wrapper = New(config).wrapper
    /\ pc = [auth |-> "idle", op |-> "idle"]
    /\ \E op \in {"GetFlow", "DeleteFlow"} :
           call = [NoCall EXCEPT !.op = op, !.flowID = "f1",
                                 !.username = "admin", !.password = "password"]
    /\ \E b \in BOOLEAN : local = [NoAccess EXCEPT !.serialised = b]
    /\ events = << >>
    /\ requests = << >>
    /\ responses = << >>
    /\ ret = NoReturn
    /\ granted = ""

\* the caller's mutex, taken around each call when the caller serialises
CanLock == ~local.serialised \/ local.mutex = "free"
Locked(l, g) == IF l.serialised THEN [l EXCEPT !.mutex = g] ELSE l
Unlocked(l) == IF l.serialised THEN [l EXCEPT !.mutex = "free"] ELSE l

(*--------------------- the goroutine in GetAuthToken --------------------*)
AuthStart ==
    /\ pc.auth = "idle"
    /\ CanLock
    /\ local' = Locked(local, "auth")
    /\ pc' = [pc EXCEPT !.auth = "request"]
    /\ UNCHANGED <<wrapper, granted, call, events, requests, responses, ret>>

\* the POST to /auth/token and its answer, up to the assignment of c.apiKey
AuthExchange ==
    /\ pc.auth = "request"
    /\ LET p == GetAuthTokenRequest(wrapper.client, call.username, call.password)
       IN  \E resp \in RaceAuthResponses :
               LET r == GetAuthTokenOnResponse(resp)
               IN  /\ Exchange(p.req, resp)
                   /\ IF IsErr(r.err)
                      THEN /\ pc' = [pc EXCEPT !.auth = "return"]
                           /\ UNCHANGED local
                      ELSE /\ pc' = [pc EXCEPT !.auth = "write"]
                           /\ local' = [local EXCEPT !.token = r.token]
    /\ UNCHANGED <<wrapper, granted, call, events, ret>>

\* c.apiKey = authResponse.AccessToken begins: a write of a string, which
\* is not atomic
AuthWriteBegin ==
    /\ pc.auth = "write"
    /\ local' = [local EXCEPT !.writing = TRUE, !.old = wrapper.client.apiKey,
                              !.raced = @ \/ local.reading]
    /\ events' = Append(events, [ev |-> "write"])
    /\ pc' = [pc EXCEPT !.auth = "writing"]
    /\ UNCHANGED <<wrapper, granted, call, requests, responses, ret>>

\* the write is complete
AuthWriteEnd ==
    /\ pc.auth = "writing"
    /\ wrapper' = [wrapper EXCEPT
                     !.client = GetAuthTokenStore(wrapper.client,
                                                  [token |-> local.token,
                                                   err |-> NoErr])]
    /\ granted' = local.token
    /\ local' = [local EXCEPT !.writing = FALSE]
    /\ pc' = [pc EXCEPT !.auth = "return"]
    /\ UNCHANGED <<call, events, requests, responses, ret>>

AuthReturn ==
    /\ pc.auth = "return"
    /\ local' = Unlocked(local)
    /\ pc' = [pc EXCEPT !.auth = "done"]
    /\ UNCHANGED <<wrapper, granted, call, events, requests, responses, ret>>

(*------------------ the goroutine in GetFlow or DeleteFlow ---------------*)
OpStart ==
    /\ pc.op = "idle"
    /\ CanLock
    /\ local' = Locked(local, "op")
    /\ pc' = [pc EXCEPT !.op = "read"]
    /\ UNCHANGED <<wrapper, granted, call, events, requests, responses, ret>>

\* the reads of c.apiKey begin
OpReadBegin ==
    /\ pc.op = "read"
    /\ local' = [local EXCEPT !.reading = TRUE, !.raced = @ \/ local.writing]
    /\ events' = Append(events, [ev |-> "read"])
    /\ pc' = [pc EXCEPT !.op = "reading"]
    /\ UNCHANGED <<wrapper, granted, call, requests, responses, ret>>

\* what a read of c.apiKey returns: the field's value, or, when the write
\* overlapped the reads, the old token, the new one, or a torn string
ReadOutcomes ==
    IF local.raced
    THEN {local.old, local.token, TornToken}
    ELSE {wrapper.client.apiKey}

\* the reads are complete: one for the test c.apiKey != "", one for the
\* header "Bearer "+c.apiKey
OpReadEnd ==
    /\ pc.op = "reading"
    /\ \E tested \in ReadOutcomes, sent \in ReadOutcomes :
           local' = [local EXCEPT !.reading = FALSE,
                                  !.read = [tested |-> tested, sent |-> sent]]
    /\ pc' = [pc EXCEPT !.op = "request"]
    /\ UNCHANGED <<wrapper, granted, call, events, requests, responses, ret>>

\* the request of the operation, with the header built from what was read
OpRequest ==
    LET c == [wrapper.client EXCEPT !.apiKey = ""]
        base == IF call.op = "GetFlow"
                THEN ClientGetFlowRequest(c, call.flowID).req
                ELSE ClientDeleteFlowRequest(c, call.flowID).req
    IN  IF local.read.tested # ""
        THEN [base EXCEPT !.Authorization = <<"Bearer ", local.read.sent>>]
        ELSE base

OpExchange ==
    /\ pc.op = "request"
    /\ \E resp \in RaceOpResponses :
           /\ Exchange(OpRequest, resp)
           /\ ret' = [op |-> call.op, value |-> NilResult,
                      err |-> IF call.op = "GetFlow"
                              THEN ClientGetFlowOnResponse(resp, call.flowID).err
                              ELSE ClientDeleteFlowOnResponse(resp, call.flowID),
                      panic |-> FALSE]
    /\ pc' = [pc EXCEPT !.op = "return"]
    /\ UNCHANGED <<wrapper, granted, call, local, events>>

OpReturn ==
    /\ pc.op = "return"
    /\ local' = Unlocked(local)
    /\ pc' = [pc EXCEPT !.op = "done"]
    /\ UNCHANGED <<wrapper, granted, call, events, requests, responses, ret>>

NextRace ==
    \/ AuthStart
    \/ AuthExchange
    \/ AuthWriteBegin
    \/ AuthWriteEnd
    \/ AuthReturn
    \/ OpStart
    \/ OpReadBegin
    \/ OpReadEnd
    \/ OpExchange
    \/ OpReturn

SpecRace == InitRace /\ [][NextRace]_vars

\* the requests of the flow operation (GetAuthToken's is the POST)
IsOpRequest(i) == requests[i].method # "POST"

\* the write of the token began before the reads of the flow operation did
WriteBeforeRead ==
    \E i, j \in 1..Len(events) :
        i < j /\ events[i].ev = "write" /\ events[j].ev = "read"

\* the write of c.apiKey and the reads of it are both in progress
Overlap == local.reading /\ local.writing

\* C24: when GetAuthToken and another operation run on one client and the
\* caller does not serialise them, a state is reachable in which the write
\* of the token overlaps the other operation's reads of it (C24_Witness),
\* and the request then carries the old token, the new one, or a torn
\* value.  When the caller serialises the calls no such state is reachable,
\* and whenever the accesses did not overlap the request carries the token
\* the client held when it was built: the granted one when GetAuthToken
\* wrote first, the configured one otherwise.
C24_SerialisedNoRace ==
    /\ local.serialised => (~Overlap /\ ~local.raced)
    /\ Overlap => local.raced
    /\ \A i \in 1..Len(requests) :
           IsOpRequest(i) =>
               IF local.raced
               THEN requests[i].Authorization \in
                        {NoHeader} \cup
                        {<<"Bearer ", v>> : v \in {local.old, local.token, TornToken}}
               ELSE requests[i].Authorization
                        = BearerHeader(IF WriteBeforeRead THEN local.token
                                       ELSE wrapper.config.APIKey)

\* the caller does not serialise, and the write overlaps the reads
C24_Witness ==
    /\ ~local.serialised
    /\ Overlap
    /\ local.old = "key0"
    /\ local.token = "tok1"

\* after an overlap the request carries the old token
C24_WitnessOld ==
    /\ local.raced
    /\ Len(requests) = 2
    /\ \E i \in 1..2 : IsOpRequest(i) /\ requests[i].Authorization = <<"Bearer ", "key0">>

\* after an overlap the request carries the new token
C24_WitnessNew ==
    /\ local.raced
    /\ Len(requests) = 2
    /\ \E i \in 1..2 : IsOpRequest(i) /\ requests[i].Authorization = <<"Bearer ", "tok1">>

\* the calls that put a new client in place of the wrapper's
Constructors == {"New", "NewWithConverter", "NewWithExecutor"}

\* C25: no step of DeployFlow, ExecuteFlow, GetFlow, DeleteFlow or
\* HealthCheck (nor of the workflow calls and setters) changes the client's
\* base URL, token or debug flag, whatever the outcome, and neither does a
\* GetAuthToken that fails; the one step that changes the client is the
\* return of a successful GetAuthToken, and it changes the token only, to
\* the token returned.
C25_ClientFrame ==
    [][(~wrapper.nil /\ call'.op \notin Constructors) =>
           /\ ~wrapper'.nil
           /\ wrapper'.client.baseURL = wrapper.client.baseURL
           /\ wrapper'.client.debug = wrapper.client.debug
           /\ wrapper'.client.apiKey # wrapper.client.apiKey =>
                  /\ pc = "client.GetAuthToken"
                  /\ pc' = "done"
                  /\ ~IsErr(ret'.err)
                  /\ wrapper'.client.apiKey = ret'.value.token
           /\ (pc = "client.GetAuthToken" /\ IsErr(ret'.err)) =>
                  wrapper'.client = wrapper.client]_vars

\* a client holding a granted token was answered 200 without an access
\* token: GetAuthToken failed and the token is still the granted one
C25_Witness ==
    /\ Returned("GetAuthToken")
    /\ IsErr(ret.err)
    /\ LastResponse.status = StatusOK
    /\ LastResponse.body = BodyErrorDoc
    /\ granted = "tok1"
    /\ wrapper.client.apiKey = "tok1"

\* the translator was applied to two flows
TranslatedTwice == Returned("convertFlowToNodeRedFormat twice")

\* two flows are equal in identifier, name, description and nodes
SameForTranslator(f, g) ==
    /\ f.ID = g.ID
    /\ f.Name = g.Name
    /\ f.Description = g.Description
    /\ f.Nodes = g.Nodes

\* C26: two flows that are equal in identifier, name, description and nodes
\* (with their wires and properties) have the same wire format and the same
\* Deploy request, whatever their connections, version, metadata and
\* timestamps are.
C26_ConnectionsIgnored ==
    (TranslatedTwice /\ SameForTranslator(call.flow, call.input)) =>
        /\ ret.value.wire = ret.value.otherWire
        /\ ret.value.deploy = ret.value.otherDeploy

\* two flows of two nodes that differ in connections, version, metadata and
\* timestamp were translated
C26_Witness ==
    /\ TranslatedTwice
    /\ SameForTranslator(call.flow, call.input)
    /\ Len(call.flow.Nodes) = 2
    /\ call.flow.Connections # call.input.Connections
    /\ call.flow.Version # call.input.Version
    /\ call.flow.Metadata # call.input.Metadata
    /\ call.flow.UpdatedAt # call.input.UpdatedAt
    /\ ret.value.wire = ret.value.otherWire

\* the error of a request aborted because the caller's context was cancelled
\* or its deadline expired
CancellationError == NetError("context canceled")

\* a request of the current operation was aborted by cancellation
Cancelled ==
    \E i \in 1..Len(responses) : responses[i].err = CancellationError

\* C27: an operation one of whose requests was aborted by cancellation sends
\* no request after the aborted one (Deploy sends no POST after a cancelled
\* PUT) and returns an error that identifies as the cancellation error
\* (errors.Is), for the facade's ExecuteFlow also when OnError returns an
\* error.
C27_CancellationIsReturned ==
    Cancelled =>
        /\ responses[Len(responses)].err = CancellationError
        /\ Len(requests) = Len(responses)
        /\ pc = "done" => ErrorsIs(ret.err, CancellationError)

\* Deploy, Get, Delete, HealthCheck and GetAuthToken return the cancellation
\* error of their aborted request, and so does ExecuteFlow when OnError
\* returns nil
C27_CancellationElsewhere ==
    (Cancelled /\ ~(InCall("ExecuteFlow") /\ HasEvent("OnError")
                    /\ IsErr(events[3].returned))) =>
        /\ responses[Len(responses)].err = CancellationError
        /\ Len(requests) = Len(responses)
        /\ pc = "done" => ErrorsIs(ret.err, CancellationError)

\* the converter of the current ExecuteWorkflow failed, returned no flow with
\* no error, or returned a flow with an empty identifier
ConversionUnusable ==
    /\ InCall("ExecuteWorkflow")
    /\ \/ IsErr(Conversion.returned)
       \/ Conversion.flow.nil
       \/ Conversion.flow.ID = ""

\* C28: ExecuteWorkflow whose converter fails, returns no flow with no error,
\* or returns a flow with an empty identifier returns an error, runs no hook
\* and sends no request; it does not crash when the converter returns no flow
\* and no error.
C28_ExecuteWorkflowValidates ==
    ConversionUnusable =>
        /\ pc = "done"
        /\ ~ret.panic
        /\ IsErr(ret.err)
        /\ ret.value = NilResult
        /\ EventNames = <<"ConvertToNodeRedFlow">>
        /\ requests = << >>

\* ExecuteWorkflow returns an error, with no hook and no request, when the
\* converter fails or returns a flow with an empty identifier
C28_ExceptNoFlow ==
    (ConversionUnusable /\ (IsErr(Conversion.returned) \/ ~Conversion.flow.nil)) =>
        /\ pc = "done"
        /\ ~ret.panic
        /\ IsErr(ret.err)
        /\ ret.value = NilResult
        /\ EventNames = <<"ConvertToNodeRedFlow">>
        /\ requests = << >>

\* the capability a constructor or setter installs: the argument when it is
\* set, the one in place otherwise
Installed(handler, current) == IF handler # NilHandler THEN handler ELSE current

\* C29: every constructed wrapper has a converter and an executor.  A
\* constructor installs its argument when it is set and the default
\* otherwise; SetConverter and SetExecutor with an unset argument change
\* nothing, and with a set argument replace that one capability only, leaving
\* the other capability, the client and the config as they were.
C29_Capabilities ==
    [][/\ ~wrapper'.nil =>
              /\ wrapper'.converter \in Converters
              /\ wrapper'.executor \in Executors
       /\ (call'.op \in Constructors /\ ~wrapper'.nil) =>
              /\ wrapper'.converter =
                     IF call'.op = "NewWithConverter"
                     THEN Installed(call'.handler, "DefaultConverter")
                     ELSE "DefaultConverter"
              /\ wrapper'.executor =
                     IF call'.op = "NewWithExecutor"
                     THEN Installed(call'.handler, "DefaultExecutor")
                     ELSE "DefaultExecutor"
       /\ call'.op = "SetConverter" =>
              wrapper' = [wrapper EXCEPT
                              !.converter = Installed(call'.handler, @)]
       /\ call'.op = "SetExecutor" =>
              wrapper' = [wrapper EXCEPT
                              !.executor = Installed(call'.handler, @)]]_vars

\* SetConverter(nil) returned on a wrapper whose converter and executor were
\* both replaced before
C29_Witness ==
    /\ Returned("SetConverter")
    /\ call.handler = NilHandler
    /\ wrapper.converter = "CustomConverter"
    /\ wrapper.executor = "CustomExecutor"

\* the keys the translator writes for every node
ReservedKeys == {"id", "type", "name", "x", "y", "z", "wires"}

\* the value node i of the flow has for reserved key k
Structural(i, k) ==
    LET node == TranslatorIn.Nodes[i]
        own == [id |-> Str(node.ID), type |-> Str(node.Type),
                name |-> Str(node.Name), x |-> Num(node.X), y |-> Num(node.Y),
                z |-> Str(TranslatorIn.ID), wires |-> WiresValue(node.Wires)]
    IN  own[k]

\* C30: in the object of node i, a reserved key (id, type, name, x, y, z,
\* wires) that is also a key of the node's properties holds the property's
\* value, every other reserved key holds the node's structural value, and
\* the object has the reserved keys and the property keys, no more and no
\* less.  So id, z and wires are the node's identifier, the flow's identifier
\* and the node's wiring where the properties have no such key, and are not
\* where a property of that name has another value.
C30_ReservedKeysReplaced ==
    Translated =>
        \A i \in 1..Len(TranslatorIn.Nodes) :
            LET props == TranslatorIn.Nodes[i].Properties
                object == TranslatorOut[i + 1]
            IN  /\ DOMAIN object = ReservedKeys \cup DOMAIN props
                /\ \A k \in ReservedKeys :
                       object[k] = IF k \in DOMAIN props
                                   THEN props[k]
                                   ELSE Structural(i, k)
                /\ \A k \in {"id", "z", "wires"} \cap DOMAIN props :
                       props[k] # Structural(i, k) => object[k] # Structural(i, k)

\* a flow was translated whose first node has a property named "id" and whose
\* second node has properties named wires, z, name, x and y
C30_Witness ==
    /\ Translated
    /\ Len(TranslatorIn.Nodes) = 2
    /\ DOMAIN TranslatorIn.Nodes[1].Properties = {"id"}
    /\ {"wires", "z", "name", "x", "y"}
           \subseteq DOMAIN TranslatorIn.Nodes[2].Properties
    /\ TranslatorOut[2]["id"] = Str("other")
    /\ TranslatorOut[3]["z"] = Str("elsewhere")
    /\ TranslatorOut[3]["id"] = Str(TranslatorIn.Nodes[2].ID)

=============================================================================
